---- MODULE Spec2Model ----
(***************************************************************************)
(* rsa-multikey: conversion between engine key handles, DER bytes, JWK     *)
(* objects and Multikey documents, and the PS256 signer/verifier factory.  *)
(*                                                                         *)
(* Conventions of the model                                                *)
(*  - a JavaScript object is a record holding exactly its defined          *)
(*    properties; a property whose value is undefined is an absent field;  *)
(*  - a JavaScript string built by the library (id, controller, multibase  *)
(*    text) is a sequence of tokens, so that template strings are          *)
(*    concatenations and the empty string is <<>>;                         *)
(*  - an asynchronous function is an operator returning a completion       *)
(*    record: Ok(value, eng) or Throw(error, eng), where eng is the        *)
(*    sequence of engine (webcrypto.subtle) calls made, in order.          *)
(***************************************************************************)
EXTENDS Integers, Sequences, FiniteSets, TLC

(* ------------------------------ bounds --------------------------------- *)

\* number of distinct RSA keys the engine can generate per modulus length
KeysPerLength == 1
\* number of distinct PSS salts the engine can draw when signing
MaxSalt == 2

(* --------------------------- program constants ------------------------- *)

MULTIKEY_CONTEXT_V1_URL == "https://w3id.org/security/multikey/v1"
DEFAULT_MODULUS_LENGTH == 4096
ALGORITHM == "RSA-PSS"
EXTRACTABLE == TRUE

(* --------------------------- JavaScript values ------------------------- *)

\* the record without fields: the empty object {} / an empty options hash
Empty == <<>>

Has(o, f) == f \in DOMAIN o

\* a string literal, and the truthiness of a string
Str(s) == <<[lit |-> s]>>
EmptyStr == <<>>
StrTruthy(s) == Len(s) > 0

\* o.f is defined and truthy, for a string-valued property f
TruthyStrField(o, f) == Has(o, f) /\ StrTruthy(o[f])

\* a value of another type where a string is expected, and typeof v === 'string'
NotAString(type) == <<[typeof |-> type]>>
IsString(v) == \A n \in DOMAIN v : ~ Has(v[n], "typeof")

\* {...o, f: v}
With(o, f, v) == (f :> v) @@ o

\* completion records
Ok(v, e) == [ok |-> TRUE, val |-> v, eng |-> e]
Throw(t, e) == [ok |-> FALSE, err |-> t, eng |-> e]
\* the completion r of a continuation that ran after the engine calls e
After(e, r) == [r EXCEPT !.eng = e \o @]
\* await r, then continue with F on its value; a throw ends the function
Bind(r, F(_)) == IF r.ok THEN After(r.eng, F(r.val)) ELSE r

(* ------------------ the external engine: webcrypto.subtle -------------- *)

\* an RSA key: its modulus length in bits and which of the keys of that
\* length it is
RsaKey(len, i) == [len |-> len, i |-> i]

\* big-endian modulus bytes of a key (len / 8 bytes, top bit set) and their
\* base64url text, as they appear in the "n" member of a JWK
ModulusBytes(key) == [bytes |-> key.len \div 8, i |-> key.i]
Base64Url(b) == [b64 |-> b]
Base64UrlDecode(t) == t.b64

PrivateMembers == {"d", "p", "q", "dp", "dq", "qi"}

CryptoKeyHandle(type, key, usages) ==
    [type |-> type, key |-> key, usages |-> usages,
     algorithm |-> [name |-> ALGORITHM, hash |-> "SHA-256",
                    modulusLength |-> key.len]]

\* DER encodings
Spki(key) == [der |-> "spki", n |-> ModulusBytes(key), e |-> 65537]
Pkcs8(key) == [der |-> "pkcs8", n |-> ModulusBytes(key), e |-> 65537,
               d |-> [priv |-> key]]
KeyOfDer(b) == RsaKey(b.n.bytes * 8, b.n.i)

\* JWK members of a key
PublicJwkMembers(key) ==
    [kty |-> "RSA", n |-> Base64Url(ModulusBytes(key)), e |-> "AQAB"]
PrivateJwkMembers(key) ==
    [m \in PrivateMembers |-> [member |-> m, priv |-> key]]

subtle_generateKey(modulusLength, i, usages) ==
    LET key == RsaKey(modulusLength, i) IN
    Ok([publicKey |-> CryptoKeyHandle("public", key, usages \cap {"verify"}),
        privateKey |-> CryptoKeyHandle("private", key, usages \cap {"sign"})],
       <<"generateKey">>)

subtle_exportKey(format, handle) ==
    LET e == <<"exportKey">> IN
    CASE format = "jwk" ->
           Ok((IF handle.type = "private"
                 THEN PrivateJwkMembers(handle.key) ELSE Empty)
              @@ PublicJwkMembers(handle.key)
              @@ [alg |-> "PS256", key_ops |-> handle.usages, ext |-> TRUE], e)
      [] format = "spki" ->
           IF handle.type = "public" THEN Ok(Spki(handle.key), e)
           ELSE Throw("InvalidAccessError", e)
      [] format = "pkcs8" ->
           IF handle.type = "private" THEN Ok(Pkcs8(handle.key), e)
           ELSE Throw("InvalidAccessError", e)

\* a JWK the engine accepts as an RSA key: public members present, and the
\* private members, if any, all present and belonging to the same modulus
JwkWellFormed(jwk) ==
    /\ Has(jwk, "kty") /\ jwk.kty = "RSA"
    /\ Has(jwk, "n") /\ Has(jwk, "e")
    /\ Has(jwk, "d") =>
         \A m \in PrivateMembers :
            /\ Has(jwk, m)
            /\ jwk[m] = [member |-> m,
                         priv |-> RsaKey(Base64UrlDecode(jwk.n).bytes * 8,
                                         Base64UrlDecode(jwk.n).i)]

subtle_importKey(format, keyData, usages) ==
    LET e == <<"importKey">> IN
    CASE format = "jwk" ->
           LET private == Has(keyData, "d")
               allowed == IF private THEN {"sign"} ELSE {"verify"} IN
           IF ~ JwkWellFormed(keyData) THEN Throw("DataError", e)
           ELSE IF ~ (usages \subseteq allowed) THEN Throw("SyntaxError", e)
           ELSE IF Has(keyData, "key_ops") /\ ~ (usages \subseteq keyData.key_ops)
             THEN Throw("DataError", e)
           ELSE IF Has(keyData, "alg") /\ keyData.alg # "PS256"
             THEN Throw("DataError", e)
           ELSE LET n == Base64UrlDecode(keyData.n) IN
                Ok(CryptoKeyHandle(IF private THEN "private" ELSE "public",
                                   RsaKey(n.bytes * 8, n.i), usages), e)
      [] format = "spki" ->
           IF ~ (Has(keyData, "der") /\ keyData.der = "spki")
             THEN Throw("DataError", e)
           ELSE IF ~ (usages \subseteq {"verify"}) THEN Throw("SyntaxError", e)
           ELSE Ok(CryptoKeyHandle("public", KeyOfDer(keyData), usages), e)
      [] format = "pkcs8" ->
           IF ~ (Has(keyData, "der") /\ keyData.der = "pkcs8")
             THEN Throw("DataError", e)
           ELSE IF ~ (usages \subseteq {"sign"}) THEN Throw("SyntaxError", e)
           ELSE Ok(CryptoKeyHandle("private", KeyOfDer(keyData), usages), e)

\* RSA-PSS is randomised: the signature depends on the salt the engine draws
subtle_sign(handle, bytes, salt) ==
    IF handle.type = "private" /\ "sign" \in handle.usages
      THEN Ok([pss |-> handle.key, salt |-> salt, msg |-> bytes], <<"sign">>)
      ELSE Throw("InvalidAccessError", <<"sign">>)

subtle_verify(handle, signature, bytes) ==
    IF handle.type = "public" /\ "verify" \in handle.usages
      THEN Ok(/\ Has(signature, "pss")
              /\ signature.pss = handle.key
              /\ signature.msg = bytes, <<"verify">>)
      ELSE Throw("InvalidAccessError", <<"verify">>)

(* ------------------- the external codec: base58btc --------------------- *)

\* multibase text: the marker 'z' followed by the base58 digits of the bytes
base58btc_encode(bytes) == <<[mb |-> "z", digits |-> [b58 |-> bytes]]>>

IsMultibase(text) == Len(text) = 1 /\ Has(text[1], "mb") /\ text[1].mb = "z"
base58btc_decode(text) ==
    IF IsMultibase(text) THEN Ok(text[1].digits.b58, <<>>)
    ELSE Throw("Error", <<>>)

(* ----------------------- more JavaScript values ------------------------- *)

\* the value undefined, where a whole argument (not a property) may be it
Undefined == [undefined |-> TRUE]
\* v && typeof v === 'object' (JsString, defined below, is a string value)
IsObject(v) == ~ Has(v, "undefined") /\ ~ Has(v, "str")

\* an option with its default value
Opt(o, f, default) == IF Has(o, f) THEN o[f] ELSE default

\* {f: o.f, ...} for the listed members, undefined ones left out
Pick(o, fs) == [f \in fs \cap DOMAIN o |-> o[f]]

\* a Uint8Array holds DER content (possibly none that parses)
IsUint8Array(v) == Has(v, "der")

\* values of the '@context' property
JsString(s) == [str |-> s]
JsArray(s) == [arr |-> s]
JsObject == [obj |-> "{}"]

(* ----------------------------- serialize.js ---------------------------- *)

toPublicKeyBytes(o) ==
    IF ~ Has(o, "jwk") THEN Throw("TypeError", <<>>)
    ELSE Bind(subtle_importKey("jwk", o.jwk, {"verify"}),
              LAMBDA publicKey : subtle_exportKey("spki", publicKey))

toSecretKeyBytes(o) ==
    IF ~ Has(o, "jwk") THEN Throw("TypeError", <<>>)
    ELSE IF ~ Has(o.jwk, "d") THEN Throw("Error", <<>>)
    ELSE Bind(subtle_importKey("jwk", o.jwk, {"sign"}),
              LAMBDA privateKey : subtle_exportKey("pkcs8", privateKey))

toPublicKeyMultibase(o) ==
    IF ~ (Has(o, "publicKeyBytes") /\ IsUint8Array(o.publicKeyBytes))
      THEN Throw("TypeError", <<>>)
      ELSE Ok(base58btc_encode(o.publicKeyBytes), <<>>)

toSecretKeyMultibase(o) ==
    IF ~ (Has(o, "secretKeyBytes") /\ IsUint8Array(o.secretKeyBytes))
      THEN Throw("TypeError", <<>>)
      ELSE Ok(base58btc_encode(o.secretKeyBytes), <<>>)

toPublicKeyMultibaseFromJwk(o) ==
    Bind(toPublicKeyBytes([jwk |-> Pick(o.jwk, {"kty", "n", "e", "alg"})]),
         LAMBDA publicKeyBytes :
            toPublicKeyMultibase([publicKeyBytes |-> publicKeyBytes]))

toSecretKeyMultibaseFromJwk(o) ==
    Bind(toSecretKeyBytes([jwk |-> o.jwk]),
         LAMBDA secretKeyBytes :
            toSecretKeyMultibase([secretKeyBytes |-> secretKeyBytes]))

\* the multibase properties are strings whenever they are defined
fromPublicKeyMultibase(o) ==
    IF ~ Has(o, "publicKeyMultibase") THEN Throw("TypeError", <<>>)
    ELSE base58btc_decode(o.publicKeyMultibase)

fromSecretKeyMultibase(o) ==
    IF ~ Has(o, "secretKeyMultibase") THEN Throw("TypeError", <<>>)
    ELSE base58btc_decode(o.secretKeyMultibase)

\* keyAgreement ? ['deriveBits'] : [usage]
UsagesFor(keyAgreement, usage) ==
    IF keyAgreement THEN {"deriveBits"} ELSE {usage}

cryptoKeyfromRaw_PublicOnly(o) ==
    IF ~ Has(o, "modulusLength") THEN Throw("TypeError", <<>>)
    ELSE IF ~ (Has(o, "publicKey") /\ IsUint8Array(o.publicKey))
      THEN Throw("TypeError", <<>>)
    ELSE IF Has(o, "secretKey") /\ ~ IsUint8Array(o.secretKey)
      THEN Throw("TypeError", <<>>)
    ELSE subtle_importKey("spki", o.publicKey,
                          UsagesFor(Opt(o, "keyAgreement", FALSE), "verify"))

cryptoKeyfromRaw(o) ==
    IF ~ Has(o, "modulusLength") THEN Throw("TypeError", <<>>)
    ELSE IF ~ (Has(o, "publicKey") /\ IsUint8Array(o.publicKey))
      THEN Throw("TypeError", <<>>)
    ELSE IF Has(o, "secretKey") /\ ~ IsUint8Array(o.secretKey)
      THEN Throw("TypeError", <<>>)
    ELSE IF Has(o, "secretKey")
      THEN subtle_importKey("pkcs8", o.secretKey,
                            UsagesFor(Opt(o, "keyAgreement", FALSE), "sign"))
      ELSE subtle_importKey("spki", o.publicKey,
                            UsagesFor(Opt(o, "keyAgreement", FALSE), "verify"))

\* keyPair.publicKey instanceof CryptoKey || keyPair.publicKey?.algorithm
HasPublicKeyHandle(keyPair) ==
    /\ IsObject(keyPair)
    /\ Has(keyPair, "publicKey")
    /\ Has(keyPair.publicKey, "algorithm")

KeyAgreementOf(keyPair) == Opt(keyPair, "keyAgreement", FALSE)

\* keyPair.secretKeyJwk || keyPair.privateKeyJwk
SecretJwkOf(keyPair) ==
    IF Has(keyPair, "secretKeyJwk") THEN keyPair.secretKeyJwk
    ELSE keyPair.privateKeyJwk

importKeyPairFromJwk_PublicOnly(keyPair) ==
    Bind(subtle_importKey("jwk", keyPair.publicKeyJwk,
                          UsagesFor(KeyAgreementOf(keyPair), "verify")),
         LAMBDA publicKey : Ok(With(keyPair, "publicKey", publicKey), <<>>))

importKeyPairFromJwk(keyPair) ==
    Bind(subtle_importKey("jwk", keyPair.publicKeyJwk,
                          UsagesFor(KeyAgreementOf(keyPair), "verify")),
         LAMBDA publicKey :
            IF Has(keyPair, "secretKeyJwk") \/ Has(keyPair, "privateKeyJwk")
              THEN Bind(subtle_importKey("jwk", SecretJwkOf(keyPair),
                            UsagesFor(KeyAgreementOf(keyPair), "sign")),
                        LAMBDA secretKey :
                           Ok(With(With(keyPair, "publicKey", publicKey),
                                   "secretKey", secretKey), <<>>))
              ELSE Ok(With(keyPair, "publicKey", publicKey), <<>>))

\* keyPair.modulusLength || 4096
multibaseModulusLength(keyPair) ==
    IF Has(keyPair, "modulusLength") /\ keyPair.modulusLength # 0
      THEN keyPair.modulusLength ELSE 4096

importKeyPairFromMultibase(keyPair) ==
    Bind(fromPublicKeyMultibase(Pick(keyPair, {"publicKeyMultibase"})),
      LAMBDA publicKeyBytes :
        Bind(cryptoKeyfromRaw(
                 [modulusLength |-> multibaseModulusLength(keyPair),
                  publicKey |-> publicKeyBytes,
                  keyAgreement |-> KeyAgreementOf(keyPair)]),
          LAMBDA publicKey :
            IF ~ TruthyStrField(keyPair, "secretKeyMultibase")
              THEN Ok(With(keyPair, "publicKey", publicKey), <<>>)
              ELSE
              Bind(fromSecretKeyMultibase(Pick(keyPair, {"secretKeyMultibase"})),
                LAMBDA secretKeyBytes :
                  Bind(cryptoKeyfromRaw(
                           [modulusLength |-> multibaseModulusLength(keyPair),
                            secretKey |-> secretKeyBytes,
                            publicKey |-> publicKeyBytes,
                            keyAgreement |-> KeyAgreementOf(keyPair)]),
                    LAMBDA secretKey :
                      Ok(With(With(keyPair, "publicKey", publicKey),
                              "secretKey", secretKey), <<>>)))))

importKeyPair_MultibaseFirst(keyPair) ==
    IF ~ IsObject(keyPair) THEN Throw("TypeError", <<>>)
    ELSE IF HasPublicKeyHandle(keyPair) THEN Ok(keyPair, <<>>)
    ELSE IF TruthyStrField(keyPair, "publicKeyMultibase")
      THEN importKeyPairFromMultibase(keyPair)
    ELSE IF Has(keyPair, "publicKeyJwk") THEN importKeyPairFromJwk(keyPair)
    ELSE Throw("Error", <<>>)

importKeyPair(keyPair) ==
    IF ~ IsObject(keyPair) THEN Throw("TypeError", <<>>)
    ELSE IF HasPublicKeyHandle(keyPair) THEN Ok(keyPair, <<>>)
    ELSE IF Has(keyPair, "publicKeyJwk") THEN importKeyPairFromJwk(keyPair)
    ELSE IF TruthyStrField(keyPair, "publicKeyMultibase")
      THEN importKeyPairFromMultibase(keyPair)
    ELSE Throw("Error", <<>>)

\* the public and the secret half of exportKeyPair: the properties added to
\* the result (none when the half is not exported)
exportPublicHalf_Always(keyPair, publicKey) ==
    IF ~ Has(keyPair, "publicKey") THEN Ok(Empty, <<>>)
    ELSE
    Bind(subtle_exportKey("jwk", keyPair.publicKey),
      LAMBDA publicKeyJwk :
        Bind(toPublicKeyBytes([jwk |-> publicKeyJwk]),
          LAMBDA publicKeyBytes :
            Bind(toPublicKeyMultibase([publicKeyBytes |-> publicKeyBytes]),
              LAMBDA publicKeyMultibase :
                Ok([publicKeyMultibase |-> publicKeyMultibase,
                    publicKeyJwk |-> publicKeyJwk], <<>>))))

exportPublicHalf(keyPair, publicKey) ==
    IF ~ (publicKey /\ Has(keyPair, "publicKey")) THEN Ok(Empty, <<>>)
    ELSE
    Bind(subtle_exportKey("jwk", keyPair.publicKey),
      LAMBDA publicKeyJwk :
        Bind(toPublicKeyBytes([jwk |-> publicKeyJwk]),
          LAMBDA publicKeyBytes :
            Bind(toPublicKeyMultibase([publicKeyBytes |-> publicKeyBytes]),
              LAMBDA publicKeyMultibase :
                Ok([publicKeyMultibase |-> publicKeyMultibase,
                    publicKeyJwk |-> publicKeyJwk], <<>>))))

exportSecretHalf_Unrequested(keyPair, secretKey) ==
    IF ~ Has(keyPair, "secretKey") THEN Ok(Empty, <<>>)
    ELSE
    Bind(subtle_exportKey("jwk", keyPair.secretKey),
      LAMBDA secretKeyJwk :
        Bind(toSecretKeyBytes([jwk |-> secretKeyJwk]),
          LAMBDA secretKeyBytes :
            Bind(toSecretKeyMultibase([secretKeyBytes |-> secretKeyBytes]),
              LAMBDA secretKeyMultibase :
                Ok([secretKeyMultibase |-> secretKeyMultibase,
                    secretKeyJwk |-> secretKeyJwk], <<>>))))

exportSecretHalf(keyPair, secretKey) ==
    IF ~ (secretKey /\ Has(keyPair, "secretKey")) THEN Ok(Empty, <<>>)
    ELSE
    Bind(subtle_exportKey("jwk", keyPair.secretKey),
      LAMBDA secretKeyJwk :
        Bind(toSecretKeyBytes([jwk |-> secretKeyJwk]),
          LAMBDA secretKeyBytes :
            Bind(toSecretKeyMultibase([secretKeyBytes |-> secretKeyBytes]),
              LAMBDA secretKeyMultibase :
                Ok([secretKeyMultibase |-> secretKeyMultibase,
                    secretKeyJwk |-> secretKeyJwk], <<>>))))

\* the id and controller copied from a key pair when they are truthy
IdAndController(keyPair) ==
    (IF TruthyStrField(keyPair, "controller")
       THEN [controller |-> keyPair.controller] ELSE Empty)
    @@ (IF TruthyStrField(keyPair, "id") THEN [id |-> keyPair.id] ELSE Empty)

exportKeyPair(o) ==
    IF ~ (Has(o, "keyPair") /\ IsObject(o.keyPair)) THEN Throw("TypeError", <<>>)
    ELSE
    Bind(exportPublicHalf(o.keyPair, Opt(o, "publicKey", TRUE)),
      LAMBDA public :
        Bind(exportSecretHalf(o.keyPair, Opt(o, "secretKey", FALSE)),
          LAMBDA secret :
            Ok(secret @@ public @@ IdAndController(o.keyPair)
               @@ (IF Opt(o, "includeContext", TRUE)
                     THEN "@context" :>
                            JsString("https://w3id.org/security/multikey/v1")
                     ELSE Empty)
               @@ [type |-> "Multikey"], <<>>)))

(* ---------------------------- translators.js --------------------------- *)

toMultikeyPublic(keyPair) ==
    IF ~ Has(keyPair, "publicKeyJwk") THEN Ok(Empty, <<>>)
    ELSE Bind(toPublicKeyMultibaseFromJwk([jwk |-> keyPair.publicKeyJwk]),
              LAMBDA publicKeyMultibase :
                 Ok([publicKeyMultibase |-> publicKeyMultibase,
                     publicKeyJwk |-> keyPair.publicKeyJwk], <<>>))

toMultikeySecret(keyPair) ==
    IF ~ (Has(keyPair, "secretKeyJwk") \/ Has(keyPair, "privateKeyJwk"))
      THEN Ok(Empty, <<>>)
    ELSE Bind(toSecretKeyMultibaseFromJwk([jwk |-> SecretJwkOf(keyPair)]),
              LAMBDA secretKeyMultibase :
                 Ok([secretKeyMultibase |-> secretKeyMultibase,
                     secretKeyJwk |-> SecretJwkOf(keyPair)], <<>>))

toMultikey(o) ==
    IF ~ (Has(o, "keyPair") /\ IsObject(o.keyPair)) THEN Throw("TypeError", <<>>)
    ELSE
    Bind(toMultikeyPublic(o.keyPair),
      LAMBDA public :
        Bind(toMultikeySecret(o.keyPair),
          LAMBDA secret :
            Ok(secret @@ public @@ IdAndController(o.keyPair)
               @@ ("@context" :> JsString(MULTIKEY_CONTEXT_V1_URL))
               @@ [type |-> "Multikey"], <<>>)))

(* ------------------------------ factory.js ----------------------------- *)

\* values a caller may pass as data or signature
JsUndefined == [t |-> "undefined"]
JsNumber(n) == [t |-> "number", num |-> n]
JsText(s) == [t |-> "string", str |-> s]
Uint8Array(content) == [t |-> "Uint8Array", v |-> content]
PlainObject == [t |-> "object"]

Bytes(seq) == [bytes |-> seq]

Truthy(d) ==
    CASE d.t = "string" -> d.str # ""
      [] d.t = "number" -> d.num # 0
      [] d.t = "Uint8Array" -> TRUE
      [] d.t = "object" -> TRUE
      [] OTHER -> FALSE

\* new TextEncoder().encode(s), on the strings of the model ("e-acute" names
\* the one-character string U+00E9, two bytes in UTF-8)
Utf8Table ==
    [s \in {"", "a", "e-acute"} |->
        CASE s = "" -> << >>
          [] s = "a" -> <<97>>
          [] OTHER -> <<195, 169>>]
TextEncoder_encode(s) == Bytes(Utf8Table[s])

\* the bytes signed or verified for data that is a string or a Uint8Array
DataBytes(data) ==
    IF data.t = "string" THEN TextEncoder_encode(data.str) ELSE data.v

createSigner(o) ==
    IF ~ (TruthyStrField(o, "id") /\ IsString(o.id))
      THEN Throw("TypeError", <<>>)
    ELSE IF ~ Has(o, "secretKey") THEN Throw("TypeError", <<>>)
    ELSE Ok([algorithm |-> "PS256", id |-> o.id, secretKey |-> o.secretKey],
            <<>>)

\* signer.sign({data}); salt is the engine's random choice
sign(signer, data, salt) ==
    IF ~ Truthy(data) THEN Throw("TypeError", <<>>)
    ELSE IF data.t \notin {"string", "Uint8Array"} THEN Throw("TypeError", <<>>)
    ELSE Bind(subtle_sign(signer.secretKey, DataBytes(data), salt),
              LAMBDA signature : Ok(Uint8Array(signature), <<>>))

createVerifier_Anonymous(o) ==
    IF ~ (TruthyStrField(o, "id") /\ IsString(o.id))
      THEN Throw("TypeError", <<>>)
    ELSE IF ~ Has(o, "publicKey") THEN Throw("TypeError", <<>>)
    ELSE Ok([algorithm |-> "PS256", id |-> Str("anonymous"),
             publicKey |-> o.publicKey], <<>>)

createVerifier(o) ==
    IF ~ (TruthyStrField(o, "id") /\ IsString(o.id))
      THEN Throw("TypeError", <<>>)
    ELSE IF ~ Has(o, "publicKey") THEN Throw("TypeError", <<>>)
    ELSE Ok([algorithm |-> "PS256", id |-> o.id, publicKey |-> o.publicKey],
            <<>>)

\* try { return await f } catch(e) { return false }
CatchFalse(r) == IF r.ok THEN r ELSE Ok(FALSE, r.eng)

verify_CatchAll(verifier, data, signature) ==
    CatchFalse(
      IF ~ Truthy(data) THEN Throw("TypeError", <<>>)
      ELSE IF ~ Truthy(signature) THEN Throw("TypeError", <<>>)
      ELSE IF data.t \notin {"string", "Uint8Array"} THEN Throw("TypeError", <<>>)
      ELSE IF signature.t # "Uint8Array" THEN Throw("TypeError", <<>>)
      ELSE subtle_verify(verifier.publicKey, signature.v, DataBytes(data)))

\* verifier.verify({data, signature})
verify(verifier, data, signature) ==
    IF ~ Truthy(data) THEN Throw("TypeError", <<>>)
    ELSE IF ~ Truthy(signature) THEN Throw("TypeError", <<>>)
    ELSE IF data.t \notin {"string", "Uint8Array"} THEN Throw("TypeError", <<>>)
    ELSE IF signature.t # "Uint8Array" THEN Throw("TypeError", <<>>)
    ELSE CatchFalse(subtle_verify(verifier.publicKey, signature.v,
                                  DataBytes(data)))

(* ------------------------------ helpers.js ----------------------------- *)

getModulusLengthFromJwk(jwk) ==
    IF ~ (IsObject(jwk) /\ Has(jwk, "n")) THEN Throw("TypeError", <<>>)
    ELSE Ok(Base64UrlDecode(jwk.n).bytes * 8, <<>>)

Without(o, f) == [g \in DOMAIN o \ {f} |-> o[g]]

\* {...o, f: v} where v is r[f], or undefined when r has no f
WithOptional(o, f, r) == IF Has(r, f) THEN With(o, f, r[f]) ELSE Without(o, f)

\* if(!jwk.alg) jwk.alg = 'PS256'
WithDefaultAlg_Never(jwk) == jwk
WithDefaultAlg(jwk) == IF Has(jwk, "alg") THEN jwk ELSE With(jwk, "alg", "PS256")

\* the key pair with engine handles: the one given, or its import
ensureImported(o) ==
    IF HasPublicKeyHandle(Opt(o, "keyPair", Undefined))
      THEN Ok(o.keyPair, <<>>)
      ELSE importKeyPair(Opt(o, "keyPair", Undefined))

toJwk_AlwaysPublic(o) ==
    Bind(ensureImported(o),
      LAMBDA keyPair :
        Bind(subtle_exportKey("jwk", keyPair.publicKey),
             LAMBDA jwk : Ok(WithDefaultAlg(jwk), <<>>)))

toJwk(o) ==
    Bind(ensureImported(o),
      LAMBDA keyPair :
        Bind(subtle_exportKey("jwk",
                 IF Opt(o, "secretKey", FALSE) /\ Has(keyPair, "secretKey")
                   THEN keyPair.secretKey ELSE keyPair.publicKey),
             LAMBDA jwk : Ok(WithDefaultAlg(jwk), <<>>)))

exportRawPublic(jwk, publicKey) ==
    IF ~ publicKey THEN Ok(Empty, <<>>)
    ELSE Bind(toPublicKeyBytes([jwk |-> Pick(jwk, {"kty", "n", "e", "alg"})]),
              LAMBDA bytes : Ok([publicKey |-> bytes], <<>>))

exportRawSecret(jwk, secretKey) ==
    IF ~ secretKey THEN Ok(Empty, <<>>)
    ELSE Bind(toSecretKeyBytes([jwk |-> jwk]),
              LAMBDA bytes : Ok([secretKey |-> bytes], <<>>))

\* exportFn with raw = true
exportRaw(keyPair, o) ==
    Bind(toJwk([keyPair |-> keyPair, secretKey |-> Opt(o, "secretKey", FALSE)]),
      LAMBDA jwk :
        Bind(exportRawPublic(jwk, Opt(o, "publicKey", TRUE)),
          LAMBDA public :
            Bind(exportRawSecret(jwk, Opt(o, "secretKey", FALSE)),
              LAMBDA secret : Ok(secret @@ public, <<>>))))

\* keyPair.export(options): the closure exportFn applied to the key pair
\* object as it is when the call is made
exportFn(keyPair, o) ==
    IF Opt(o, "raw", FALSE) THEN exportRaw(keyPair, o)
    ELSE exportKeyPair([keyPair |-> keyPair,
                        publicKey |-> Opt(o, "publicKey", TRUE),
                        secretKey |-> Opt(o, "secretKey", FALSE),
                        includeContext |-> Opt(o, "includeContext", TRUE)])

\* the three-step resolution of modulusLength
resolveModulusLength(o, keyPair) ==
    IF Has(o, "modulusLength") /\ o.modulusLength # 0
      THEN Ok(o.modulusLength, <<>>)
    ELSE IF Has(keyPair, "modulusLength") /\ keyPair.modulusLength # 0
      THEN Ok(keyPair.modulusLength, <<>>)
    ELSE IF Has(keyPair, "publicKeyJwk")
      THEN getModulusLengthFromJwk(keyPair.publicKeyJwk)
    ELSE Ok(DEFAULT_MODULUS_LENGTH, <<>>)

createKeyPairInterface(o) ==
    Bind(ensureImported(o),
      LAMBDA keyPair :
        Bind(resolveModulusLength(o, keyPair),
          LAMBDA modulusLength :
            Bind(exportFn(keyPair, [publicKey |-> TRUE, secretKey |-> TRUE,
                                    includeContext |-> TRUE]),
              LAMBDA exported :
                Ok(With(WithOptional(
                          WithOptional(keyPair, "publicKeyMultibase", exported),
                          "secretKeyMultibase", exported),
                        "modulusLength", modulusLength), <<>>))))

\* keyPair.signer() and keyPair.verifier()
signer_Unchecked(keyPair) == createSigner(Pick(keyPair, {"id", "secretKey"}))
signer(keyPair) ==
    IF ~ Has(keyPair, "secretKey") THEN Throw("Error", <<>>)
    ELSE createSigner(Pick(keyPair, {"id", "secretKey"}))

verifier(keyPair) == createVerifier(Pick(keyPair, {"id", "publicKey"}))

\* key['@context'] is the Multikey URL or an array that includes it
HasMultikeyContext(key) ==
    /\ Has(key, "@context")
    /\ \/ key["@context"] = JsString(MULTIKEY_CONTEXT_V1_URL)
       \/ /\ Has(key["@context"], "arr")
          /\ \E n \in DOMAIN key["@context"].arr :
                key["@context"].arr[n] = JsString(MULTIKEY_CONTEXT_V1_URL)

assertMultikey(key) ==
    IF ~ IsObject(key) THEN Throw("TypeError", <<>>)
    ELSE IF ~ (Has(key, "type") /\ key.type = "Multikey")
      THEN Throw("TypeError", <<>>)
    ELSE IF ~ HasMultikeyContext(key) THEN Throw("TypeError", <<>>)
    ELSE Ok(TRUE, <<>>)

ValidModulusLengths == {2048, 3072, 4096}

\* the id given to a generated pair
deriveId_IgnoringSuppliedId(o, publicKeyMultibase) ==
    IF TruthyStrField(o, "controller")
      THEN o.controller \o Str("#") \o publicKeyMultibase
      ELSE Str("#") \o publicKeyMultibase

deriveId(o, publicKeyMultibase) ==
    IF TruthyStrField(o, "id") THEN o.id
    ELSE IF TruthyStrField(o, "controller")
      THEN o.controller \o Str("#") \o publicKeyMultibase
    ELSE Str("#") \o publicKeyMultibase

\* generate, after the check of modulusLength; i is the key the engine draws
generateKeyPair(o, modulusLength, i) ==
    Bind(subtle_generateKey(modulusLength, i, {"sign", "verify"}),
      LAMBDA keyPair :
        Bind(createKeyPairInterface(
                 [keyPair |-> [publicKey |-> keyPair.publicKey,
                               secretKey |-> keyPair.privateKey],
                  modulusLength |-> modulusLength]),
          LAMBDA keyPairInterface :
            Bind(exportFn(keyPairInterface, [publicKey |-> TRUE]),
              LAMBDA exportedKeyPair :
                Ok(With(WithOptional(
                          With(keyPairInterface, "id",
                               deriveId(o, exportedKeyPair.publicKeyMultibase)),
                          "controller", o),
                        "modulusLength", modulusLength), <<>>))))

generate_Clamping(o, i) ==
    generateKeyPair(o,
        IF Opt(o, "modulusLength", DEFAULT_MODULUS_LENGTH) \in ValidModulusLengths
          THEN Opt(o, "modulusLength", DEFAULT_MODULUS_LENGTH)
          ELSE DEFAULT_MODULUS_LENGTH, i)

generate(o, i) ==
    IF Opt(o, "modulusLength", DEFAULT_MODULUS_LENGTH) \notin ValidModulusLengths
      THEN Throw("TypeError", <<>>)
      ELSE generateKeyPair(o, Opt(o, "modulusLength", DEFAULT_MODULUS_LENGTH), i)

\* the Multikey document fromJwk builds: its public part
jwkPublicDocument_Anonymous(o, publicKeyMultibase, modulusLength) ==
    ("@context" :> JsString(MULTIKEY_CONTEXT_V1_URL))
    @@ [type |-> "Multikey",
        publicKeyMultibase |-> publicKeyMultibase,
        publicKeyJwk |-> With(Pick(o.jwk, {"kty", "n", "e"}), "alg",
                              Opt(o.jwk, "alg", "PS256")),
        modulusLength |-> modulusLength]

jwkPublicDocument_Retyped(o, publicKeyMultibase, modulusLength) ==
    (IF Has(o, "controller") THEN [controller |-> o.controller] ELSE Empty)
    @@ (IF Has(o, "id") THEN [id |-> o.id] ELSE Empty)
    @@ ("@context" :> JsString(MULTIKEY_CONTEXT_V1_URL))
    @@ [type |-> "JsonWebKey",
        publicKeyMultibase |-> publicKeyMultibase,
        modulusLength |-> modulusLength]

jwkPublicDocument(o, publicKeyMultibase, modulusLength) ==
    (IF Has(o, "controller") THEN [controller |-> o.controller] ELSE Empty)
    @@ (IF Has(o, "id") THEN [id |-> o.id] ELSE Empty)
    @@ ("@context" :> JsString(MULTIKEY_CONTEXT_V1_URL))
    @@ [type |-> "Multikey",
        publicKeyMultibase |-> publicKeyMultibase,
        publicKeyJwk |-> With(Pick(o.jwk, {"kty", "n", "e"}), "alg",
                              Opt(o.jwk, "alg", "PS256")),
        modulusLength |-> modulusLength]

\* and its secret part, present when secretKey is requested and jwk.d exists
jwkSecretDocument_Always(o) ==
    IF ~ Has(o.jwk, "d") THEN Ok(Empty, <<>>)
    ELSE Bind(toSecretKeyMultibaseFromJwk([jwk |-> o.jwk]),
              LAMBDA secretKeyMultibase :
                 Ok([secretKeyMultibase |-> secretKeyMultibase,
                     secretKeyJwk |->
                         With(Pick(o.jwk, {"kty", "n", "e"} \cup PrivateMembers),
                              "alg", Opt(o.jwk, "alg", "PS256"))], <<>>))

jwkSecretDocument(o) ==
    IF ~ (Opt(o, "secretKey", FALSE) /\ Has(o.jwk, "d")) THEN Ok(Empty, <<>>)
    ELSE Bind(toSecretKeyMultibaseFromJwk([jwk |-> o.jwk]),
              LAMBDA secretKeyMultibase :
                 Ok([secretKeyMultibase |-> secretKeyMultibase,
                     secretKeyJwk |->
                         With(Pick(o.jwk, {"kty", "n", "e"} \cup PrivateMembers),
                              "alg", Opt(o.jwk, "alg", "PS256"))], <<>>))

\* if(!multikey.type) multikey.type = 'Multikey'
defaultType(key) ==
    IF Has(key, "type") /\ key.type # "" THEN key
    ELSE With(key, "type", "Multikey")

\* if(!multikey['@context']) multikey['@context'] = MULTIKEY_CONTEXT_V1_URL
defaultContext(key) ==
    IF Has(key, "@context") /\ key["@context"] # JsString("") THEN key
    ELSE With(key, "@context", JsString(MULTIKEY_CONTEXT_V1_URL))

\* if(multikey.controller && !multikey.id) multikey.id = `...#...`
defaultId(key) ==
    IF TruthyStrField(key, "controller") /\ ~ TruthyStrField(key, "id")
      THEN With(key, "id",
                key.controller \o Str("#")
                  \o Opt(key, "publicKeyMultibase", Str("undefined")))
      ELSE key

assertAndImport(multikey) ==
    Bind(assertMultikey(multikey),
         LAMBDA valid : createKeyPairInterface([keyPair |-> multikey]))

\* the literal-Multikey path of from: defaults, id derivation, validation
fromMultikey(key) == assertAndImport(defaultId(defaultContext(defaultType(key))))

\* the arguments from gives to fromJwk
fromJwkArguments_WholeDocument(multikey) ==
    (IF Has(multikey, "type")
        /\ multikey.type \in {"JsonWebKey", "JsonWebKey2020"}
       THEN Pick(multikey, {"id", "controller"}) ELSE Empty)
    @@ [jwk |-> multikey,
        secretKey |-> Has(multikey, "secretKeyJwk")
                      \/ Has(multikey, "privateKeyJwk")]

fromJwkArguments(multikey) ==
    (IF Has(multikey, "type")
        /\ multikey.type \in {"JsonWebKey", "JsonWebKey2020"}
       THEN Pick(multikey, {"id", "controller"}) ELSE Empty)
    @@ [jwk |-> multikey.publicKeyJwk,
        secretKey |-> Has(multikey, "secretKeyJwk")
                      \/ Has(multikey, "privateKeyJwk")]

\* fromJwk up to its call of from: the Multikey document it hands to from
fromJwkDocument(o) ==
    IF ~ (Has(o, "jwk") /\ IsObject(o.jwk)) THEN Throw("TypeError", <<>>)
    ELSE IF ~ (Has(o.jwk, "kty") /\ o.jwk.kty = "RSA")
      THEN Throw("TypeError", <<>>)
    ELSE
    Bind(getModulusLengthFromJwk(o.jwk),
      LAMBDA modulusLength :
        Bind(toPublicKeyMultibaseFromJwk(
                 [jwk |-> Pick(o.jwk, {"kty", "n", "e", "alg"})]),
          LAMBDA publicKeyMultibase :
            Bind(jwkSecretDocument(o),
              LAMBDA secret :
                Ok(secret @@ jwkPublicDocument(o, publicKeyMultibase,
                                               modulusLength), <<>>))))

RECURSIVE from(_)

fromJwk(o) == Bind(fromJwkDocument(o), LAMBDA multikey : from(multikey))

\* if(multikey.type !== 'Multikey') { if(multikey.publicKeyJwk) ...
TakesJwkBranch(key) ==
    ~ (Has(key, "type") /\ key.type = "Multikey") /\ Has(key, "publicKeyJwk")

\* ... if(multikey.type) { multikey = await toMultikey(...) } }
TakesCoercionBranch(key) ==
    /\ ~ (Has(key, "type") /\ key.type = "Multikey")
    /\ ~ Has(key, "publicKeyJwk")
    /\ Has(key, "type") /\ key.type # ""

from(key) ==
    IF TakesJwkBranch(key) THEN fromJwk(fromJwkArguments(key))
    ELSE IF TakesCoercionBranch(key)
      THEN Bind(toMultikey([keyPair |-> key]),
                LAMBDA multikey : createKeyPairInterface([keyPair |-> multikey]))
    ELSE fromMultikey(key)

\* fromRaw up to its call of fromJwk: the arguments it gives to fromJwk
fromRawArguments(o) ==
    IF ~ Has(o, "modulusLength") THEN Throw("TypeError", <<>>)
    ELSE IF Has(o, "secretKey") /\ ~ IsUint8Array(o.secretKey)
      THEN Throw("TypeError", <<>>)
    ELSE IF ~ (Has(o, "publicKey") /\ IsUint8Array(o.publicKey))
      THEN Throw("TypeError", <<>>)
    ELSE
    Bind(cryptoKeyfromRaw(Pick(o, {"modulusLength", "secretKey", "publicKey"})),
      LAMBDA cryptoKey :
        Bind(subtle_exportKey("jwk", cryptoKey),
          LAMBDA jwk : Ok([jwk |-> jwk, secretKey |-> Has(o, "secretKey")],
                          <<>>)))

fromRaw(o) == Bind(fromRawArguments(o), LAMBDA arguments : fromJwk(arguments))

(* ------------------------- a client of the library --------------------- *)
(* The library keeps no state of its own.  The state is that of a client   *)
(* which calls it: each variable holds one call, with its arguments and    *)
(* its completion, or None while the call has not been made.               *)

VARIABLES
    generated,   \* generate(args)
    exported,    \* keyPair.export(o) or toJwk({keyPair, ...o}) on the generated pair
    imported,    \* from / fromJwk / fromRaw on what was exported
    reexported,  \* keyPair.export(o) or toJwk on the imported pair
    sgn,         \* keyPair.signer() on the generated or the imported pair
    vfy,         \* keyPair.verifier() on the generated or the imported pair
    signed,      \* the last signer.sign({data})
    verified,    \* the last verifier.verify({data, signature})
    heap,        \* the objects shared by concurrent calls, by address
    tasks        \* the concurrent calls in progress, by caller

vars == <<generated, exported, imported, reexported, sgn, vfy, signed, verified,
          heap, tasks>>

None == [none |-> TRUE]

Done(call) == call # None /\ call.res.ok

(* inputs *)

TestId == Str("4e0db4260c87cc200df3")
TestController == Str("did:example:1234")

OptionalField(f, values) == {Empty} \cup {(f :> v) : v \in values}
Merge(A, B) == {a @@ b : a \in A, b \in B}

GenerateArgs ==
    Merge(OptionalField("id", {EmptyStr, TestId}),
          Merge(OptionalField("controller", {TestController}),
                OptionalField("modulusLength", {1024, 2048, 3072, 4096, 8192})))

SigningGenerateArgs ==
    Merge(OptionalField("id", {TestId}),
          {[modulusLength |-> m] : m \in ValidModulusLengths})

FullExport == [publicKey |-> TRUE, secretKey |-> TRUE]

ExportOptions ==
    {Empty, FullExport}
    \cup {[publicKey |-> p, secretKey |-> s, includeContext |-> c] :
             p \in BOOLEAN, s \in BOOLEAN, c \in BOOLEAN}
    \cup {[raw |-> TRUE, publicKey |-> p, secretKey |-> s] :
             p \in BOOLEAN, s \in BOOLEAN}

KeyPairCalls ==
    {[fn |-> "export", o |-> o] : o \in ExportOptions}
    \cup {[fn |-> "toJwk", o |-> [secretKey |-> s]] : s \in BOOLEAN}

KeyPairCall(keyPair, call) ==
    IF call.fn = "toJwk" THEN toJwk([keyPair |-> keyPair] @@ call.o)
    ELSE exportFn(keyPair, call.o)

IsDocument(call) == call.fn = "export" /\ ~ Opt(call.o, "raw", FALSE)

\* the import calls a client can make with what it exported
ImportCalls(keyPair, ex) ==
    IF IsDocument(ex.call) THEN {[fn |-> "from", args |-> ex.res.val]}
    ELSE IF ex.call.fn = "toJwk"
      THEN {[fn |-> "fromJwk", args |-> [jwk |-> ex.res.val, secretKey |-> s]] :
               s \in BOOLEAN}
    ELSE {[fn |-> "fromRaw",
           args |-> [modulusLength |-> keyPair.modulusLength] @@ ex.res.val]}

ImportCall(call) ==
    CASE call.fn = "from" -> from(call.args)
      [] call.fn = "fromJwk" -> fromJwk(call.args)
      [] call.fn = "fromRaw" -> fromRaw(call.args)

SignData ==
    {JsUndefined, JsNumber(7), PlainObject,
     JsText(""), JsText("a"), JsText("e-acute"),
     Uint8Array(Bytes(<< >>)), Uint8Array(Bytes(<<97>>)),
     Uint8Array(Bytes(<<195, 169>>))}

SignatureInputs ==
    {JsUndefined, JsText("signature"), Uint8Array(Bytes(<< >>))}
    \cup (IF Done(signed) THEN {signed.res.val} ELSE {})

PairOf(src) == IF src = "generated" THEN generated ELSE imported

(* actions *)

\* the concurrent callers
Callers == {"first", "second"}

\* the addresses of the objects the callers share: one object of each kind,
\* and a second key pair
Addresses ==
    {"keyPair", "otherKeyPair", "document", "jwk", "raw", "signer", "verifier"}

Init ==
    /\ generated = None /\ exported = None /\ imported = None
    /\ reexported = None /\ sgn = None /\ vfy = None
    /\ signed = None /\ verified = None
    /\ heap = [a \in Addresses |-> None]
    /\ tasks = [c \in Callers |-> None]

Generate(o, i) ==
    /\ generated = None
    /\ generated' = [args |-> o, res |-> generate(o, i)]
    /\ UNCHANGED <<exported, imported, reexported, sgn, vfy, signed, verified,
                 heap, tasks>>

Export(call) ==
    /\ Done(generated) /\ exported = None
    /\ exported' = [call |-> call, res |-> KeyPairCall(generated.res.val, call)]
    /\ UNCHANGED <<generated, imported, reexported, sgn, vfy, signed, verified,
                 heap, tasks>>

Import ==
    /\ Done(exported) /\ imported = None
    /\ \E call \in ImportCalls(generated.res.val, exported) :
          imported' = [call |-> call, res |-> ImportCall(call)]
    /\ UNCHANGED <<generated, exported, reexported, sgn, vfy, signed, verified,
                 heap, tasks>>

ReExport(call) ==
    /\ Done(imported) /\ reexported = None
    /\ reexported' = [call |-> call, res |-> KeyPairCall(imported.res.val, call)]
    /\ UNCHANGED <<generated, exported, imported, sgn, vfy, signed, verified,
                 heap, tasks>>

MakeSigner(src) ==
    /\ Done(PairOf(src)) /\ sgn = None
    /\ sgn' = [of |-> src, res |-> signer(PairOf(src).res.val)]
    /\ UNCHANGED <<generated, exported, imported, reexported, vfy, signed, verified,
                 heap, tasks>>

MakeVerifier(src) ==
    /\ Done(PairOf(src)) /\ vfy = None
    /\ vfy' = [of |-> src, res |-> verifier(PairOf(src).res.val)]
    /\ UNCHANGED <<generated, exported, imported, reexported, sgn, signed, verified,
                 heap, tasks>>

Sign(data, salt) ==
    /\ Done(sgn)
    /\ signed' = [data |-> data, res |-> sign(sgn.res.val, data, salt)]
    /\ verified' = None
    /\ UNCHANGED <<generated, exported, imported, reexported, sgn, vfy,
                 heap, tasks>>

Verify(data) ==
    /\ Done(vfy)
    /\ \E signature \in SignatureInputs :
          verified' = [data |-> data, signature |-> signature,
                       res |-> verify(vfy.res.val, data, signature)]
    /\ UNCHANGED <<generated, exported, imported, reexported, sgn, vfy, signed,
                 heap, tasks>>

\* key representations: generate, export, import, export again
Next ==
    \/ \E o \in GenerateArgs, i \in 1..KeysPerLength : Generate(o, i)
    \/ \E call \in KeyPairCalls : Export(call)
    \/ Import
    \/ \E call \in KeyPairCalls : ReExport(call)

Spec == Init /\ [][Next]_vars

\* signing: a pair from generate, or from its full export imported by from
NextSign ==
    \/ \E o \in SigningGenerateArgs, i \in 1..KeysPerLength : Generate(o, i)
    \/ Export([fn |-> "export", o |-> FullExport])
    \/ Import
    \/ \E src \in {"generated", "imported"} : MakeSigner(src)
    \/ \E src \in {"generated", "imported"} : MakeVerifier(src)
    \/ \E data \in SignData, salt \in 1..MaxSalt : Sign(data, salt)
    \/ \E data \in SignData : Verify(data)

SpecSign == Init /\ [][NextSign]_vars

(* imports of documents, JWKs and bytes that a client put together itself *)

ImportGenerateArgs ==
    Merge(OptionalField("id", {TestId}),
          Merge(OptionalField("controller", {TestController}),
                {[modulusLength |-> m] : m \in {2048, 4096}}))

\* the key material a client takes from the generated pair
MaterialCalls ==
    {[fn |-> "export", o |-> FullExport], [fn |-> "export", o |-> Empty],
     [fn |-> "export", o |-> [raw |-> TRUE, publicKey |-> TRUE,
                              secretKey |-> TRUE]],
     [fn |-> "export", o |-> [raw |-> TRUE, publicKey |-> TRUE,
                              secretKey |-> FALSE]]}
    \cup {[fn |-> "toJwk", o |-> [secretKey |-> s]] : s \in BOOLEAN}

OtherContext == JsString("https://www.w3.org/ns/did/v1")
ContextArray == JsArray(<<JsObject, JsString(MULTIKEY_CONTEXT_V1_URL)>>)

Contexts ==
    {JsString(MULTIKEY_CONTEXT_V1_URL), JsString(""), OtherContext,
     ContextArray, JsArray(<<JsObject>>), JsObject}

JwkDocumentTypes == {"JsonWebKey", "JsonWebKey2020", "Ed25519VerificationKey2020"}

\* the multibase text of a public key other than the generated one
OtherPublicKeyMultibase == base58btc_encode(Spki(RsaKey(3072, 1)))

\* documents for from made of the fields of an exported document D
ContextDocuments(D) ==
    {Without(D, "@context")} \cup {With(D, "@context", c) : c \in Contexts}

MultibaseDocuments(keyPair, D) ==
    {Pick(With(D, "modulusLength", keyPair.modulusLength), fs) :
        fs \in {{}, {"publicKeyMultibase"},
                {"publicKeyMultibase", "secretKeyMultibase"},
                {"publicKeyMultibase", "controller"},
                {"publicKeyMultibase", "modulusLength"}}}

JwkDocuments(D, jwk) ==
    Merge({[publicKeyJwk |-> jwk]},
          Merge(OptionalField("type", JwkDocumentTypes),
                {Pick(D, fs) : fs \in SUBSET {"id", "controller"}}))

KeyPairInputs(keyPair, D) ==
    {keyPair, D, With(D, "publicKeyMultibase", OtherPublicKeyMultibase),
     Pick(With(D, "modulusLength", keyPair.modulusLength),
          {"id", "controller", "modulusLength", "publicKeyMultibase",
           "secretKeyMultibase"}),
     Pick(D, {"id"}), Undefined}

\* Multikey documents that carry the public JWK and no publicKeyMultibase
MultikeyJwkDocuments(D) ==
    {Pick(D, {"type", "@context", "publicKeyJwk"} \cup fs) :
        fs \in SUBSET {"id", "controller"}}

\* documents that carry the secret JWK next to the public one
SecretJwkDocuments(D) ==
    IF ~ Has(D, "secretKeyJwk") THEN {}
    ELSE Merge({Pick(D, {"publicKeyJwk", "secretKeyJwk"}),
                [publicKeyJwk |-> D.publicKeyJwk,
                 privateKeyJwk |-> D.secretKeyJwk]},
               Merge(OptionalField("type", JwkDocumentTypes \cup {"Multikey"}),
                     OptionalField("id", {TestId})))

\* documents of another type that carry no publicKeyJwk
CoercedDocuments(D) ==
    {With(Pick(D, fs), "type", "Ed25519VerificationKey2020") :
        fs \in {{"publicKeyMultibase"},
                {"id", "controller", "publicKeyMultibase", "secretKeyMultibase"},
                {"id", "secretKeyJwk"}}}

CraftedFromDocument(keyPair, D) ==
    {[fn |-> "from", args |-> d] :
        d \in ContextDocuments(D) \cup MultibaseDocuments(keyPair, D)
              \cup JwkDocuments(D, D.publicKeyJwk)
              \cup MultikeyJwkDocuments(D) \cup SecretJwkDocuments(D)
              \cup CoercedDocuments(D)}
    \cup {[fn |-> "importKeyPair", args |-> k] : k \in KeyPairInputs(keyPair, D)}

CraftedFromJwk(keyPair, jwk) ==
    {[fn |-> "fromJwk", args |-> a] :
        a \in Merge({[jwk |-> jwk]},
                    Merge(OptionalField("secretKey", BOOLEAN),
                          Merge(OptionalField("id", {TestId}),
                                OptionalField("controller", {TestController}))))
              \cup {Empty, [jwk |-> JsString("RSA")],
                    [jwk |-> With(jwk, "kty", "EC")],
                    [jwk |-> Without(jwk, "kty")]}}
    \cup {[fn |-> "from", args |-> d] :
             d \in JwkDocuments(Pick(keyPair, {"id", "controller"}), jwk)}

\* the SPKI bytes of public keys other than the generated one
OtherPublicKeys == {Spki(RsaKey(3072, 1)), Spki(RsaKey(3072, 2))}

CraftedFromRaw(raw) ==
    {[fn |-> "fromRaw", args |-> a] :
        a \in {raw} \cup {With(raw, "modulusLength", m) : m \in {2048, 4096}}
              \cup {With(With(raw, "modulusLength", 3072), "publicKey", k) :
                       k \in OtherPublicKeys}}

CraftedCalls(keyPair, ex) ==
    IF IsDocument(ex.call) THEN CraftedFromDocument(keyPair, ex.res.val)
    ELSE IF ex.call.fn = "toJwk" THEN CraftedFromJwk(keyPair, ex.res.val)
    ELSE CraftedFromRaw(ex.res.val)

CraftedCall(call) ==
    IF call.fn = "importKeyPair" THEN importKeyPair(call.args)
    ELSE ImportCall(call)

\* the arguments of direct calls of the capability factories
CapabilityIds == OptionalField("id", {EmptyStr, TestId, NotAString("number")})

\* the imported value is a key pair interface (importKeyPair returns none)
InterfaceImported == Done(imported) /\ imported.call.fn # "importKeyPair"

ImportCrafted ==
    /\ Done(exported) /\ imported = None
    /\ \E call \in CraftedCalls(generated.res.val, exported) :
          imported' = [call |-> call, res |-> CraftedCall(call)]
    /\ UNCHANGED <<generated, exported, reexported, sgn, vfy, signed, verified,
                 heap, tasks>>

\* toJwk({keyPair: D, secretKey}) on an exported document D
ConvertDocument(secretKey) ==
    /\ Done(exported) /\ IsDocument(exported.call)
    /\ reexported = None /\ sgn = None /\ vfy = None
    /\ reexported' =
         [call |-> [fn |-> "toJwk", o |-> [secretKey |-> secretKey],
                    of |-> "document"],
          res |-> toJwk([keyPair |-> exported.res.val,
                         secretKey |-> secretKey])]
    /\ UNCHANGED <<generated, exported, imported, sgn, vfy, signed, verified,
                 heap, tasks>>

CreateSigner(o, withKey) ==
    /\ Done(generated) /\ sgn = None /\ vfy = None /\ reexported = None
    /\ LET args == IF withKey
                     THEN With(o, "secretKey", generated.res.val.secretKey)
                     ELSE o IN
       sgn' = [of |-> "createSigner", args |-> args, res |-> createSigner(args)]
    /\ UNCHANGED <<generated, exported, imported, reexported, vfy, signed, verified,
                 heap, tasks>>

CreateVerifier(o, withKey) ==
    /\ Done(generated) /\ sgn = None /\ vfy = None /\ reexported = None
    /\ LET args == IF withKey
                     THEN With(o, "publicKey", generated.res.val.publicKey)
                     ELSE o IN
       vfy' = [of |-> "createVerifier", args |-> args,
               res |-> createVerifier(args)]
    /\ UNCHANGED <<generated, exported, imported, reexported, sgn, signed, verified,
                 heap, tasks>>

\* the capability factories of the pair, on the generated or an imported pair
Capable(src) ==
    /\ src = "imported" => InterfaceImported
    /\ sgn = None /\ vfy = None /\ reexported = None

NextImport ==
    \/ \E o \in ImportGenerateArgs, i \in 1..KeysPerLength : Generate(o, i)
    \/ \E call \in MaterialCalls : Export(call)
    \/ ImportCrafted
    \/ \E call \in KeyPairCalls :
          InterfaceImported /\ sgn = None /\ vfy = None /\ ReExport(call)
    \/ \E s \in BOOLEAN : ConvertDocument(s)
    \/ \E src \in {"generated", "imported"} : Capable(src) /\ MakeSigner(src)
    \/ \E src \in {"generated", "imported"} : Capable(src) /\ MakeVerifier(src)
    \/ \E o \in CapabilityIds, withKey \in BOOLEAN : CreateSigner(o, withKey)
    \/ \E o \in CapabilityIds, withKey \in BOOLEAN : CreateVerifier(o, withKey)

SpecImport == Init /\ [][NextImport]_vars

(* concurrent calls.  The callers share objects: key pairs, documents,     *)
(* JWKs, raw exports, signers and verifiers, each at an address of the     *)
(* heap.  A call runs from one await of an engine call to the next; the    *)
(* calls of the other caller run in between.  A call reads an object at    *)
(* the places where the code reads it: when it is made, and again after    *)
(* the awaits named in ReadPoints.                                          *)

client == <<generated, exported, imported, reexported, sgn, vfy, signed,
            verified>>

\* a shared object: what it holds now, and what it held when it was made
Cell(val) == [val |-> val, made |-> val]

KindOf(a) == IF a = "otherKeyPair" THEN "keyPair" ELSE a

Objects(kind) == {a \in Addresses : KindOf(a) = kind /\ heap[a] # None}

\* the callers share an object of every kind
Shared == \A a \in Addresses \ {"otherKeyPair"} : heap[a] # None

\* let multikey = {...key}: the address of the object that the variable
\* multikey of from refers to; "own" is a new object that only the call holds
multikeyOf_Alias(key) == key

multikeyOf(key) == "own"

\* the address of the object that the variable keyPair in the closures
\* export, signer and verifier of the interface at address self refers to
closureKeyPair_ModuleLevel(self) ==
    IF heap["otherKeyPair"] # None THEN "otherKeyPair" ELSE self

closureKeyPair(self) == self

\* the address of the object a call reads after it was made
AddressOf(task) ==
    CASE task.fn = "from" -> multikeyOf(task.input)
      [] task.fn \in {"export", "signer", "verifier"} ->
           closureKeyPair(task.input)
      [] OTHER -> task.input

Deref(task) ==
    IF AddressOf(task) = "own" THEN task.own ELSE heap[AddressOf(task)].val

\* from, up to its first await: the defaults written into multikey
TakesLiteralPath(key) == ~ TakesJwkBranch(key) /\ ~ TakesCoercionBranch(key)

WrittenByFrom(multikey) ==
    IF TakesLiteralPath(multikey)
      THEN defaultId(defaultContext(defaultType(multikey)))
      ELSE multikey

\* what importKeyPair reads of keyPair before its first await; the rest it
\* reads after that await, with the spread {...keyPair}
ReadBeforeImport ==
    {"publicKey", "publicKeyJwk", "publicKeyMultibase", "modulusLength",
     "keyAgreement"}

\* from on the object multikey as it is when the call is made (atCall) and
\* as it is after the first await of the import (afterImport)
fromAt(atCall, afterImport) ==
    IF ~ TakesLiteralPath(atCall) THEN from(atCall)
    ELSE Bind(assertMultikey(atCall),
              LAMBDA valid :
                 createKeyPairInterface(
                     [keyPair |-> Pick(atCall, ReadBeforeImport)
                                  @@ Pick(afterImport, DOMAIN afterImport
                                                         \ ReadBeforeImport)]))

\* export on the closure's keyPair: exportKeyPair reads keyPair.secretKey
\* after the awaits of the public half
exportAt(atCall, afterPublic, o) ==
    IF Opt(o, "raw", FALSE) THEN exportFn(atCall, o)
    ELSE exportFn(Pick(afterPublic, {"secretKey"})
                  @@ Without(atCall, "secretKey"), o)

LastView(task) == task.views[Len(task.views)]

\* the completion of a call, from what it has read so far
ResultAt(task) ==
    CASE task.fn = "generate" -> generate(task.o.args, task.o.draw)
      [] task.fn = "from" -> fromAt(task.views[1], LastView(task))
      [] task.fn = "fromJwk" -> fromJwk([jwk |-> LastView(task)] @@ task.o)
      [] task.fn = "fromRaw" -> fromRaw(task.views[1] @@ task.o)
      [] task.fn = "toJwk" -> toJwk([keyPair |-> task.views[1]] @@ task.o)
      [] task.fn = "export" ->
           exportAt(task.views[1], LastView(task), task.o)
      [] task.fn = "signer" -> signer(task.views[1])
      [] task.fn = "verifier" -> verifier(task.views[1])
      [] task.fn = "sign" -> sign(task.views[1], task.o.data, task.o.salt)
      [] task.fn = "verify" ->
           verify(task.views[1], task.o.data, task.o.signature)

\* the awaits after which a call reads its object again
ReadPoints(task) ==
    CASE task.fn = "from" ->
           IF TakesLiteralPath(task.views[1])
              /\ ~ HasPublicKeyHandle(task.views[1]) THEN {1} ELSE {}
      [] task.fn = "fromJwk" ->
           {Len(fromJwkDocument([jwk |-> task.views[1]]).eng),
            Len(fromJwkDocument([jwk |-> task.views[1]] @@ task.o).eng)} \ {0}
      [] task.fn = "export" ->
           IF Opt(task.o, "raw", FALSE) \/ ~ Opt(task.o, "secretKey", FALSE)
             THEN {}
             ELSE {Len(exportPublicHalf(task.views[1],
                                        Opt(task.o, "publicKey", TRUE)).eng)}
                  \ {0}
      [] OTHER -> {}

\* a call that has run all its engine calls holds its completion
Settled(task) ==
    IF task.pc >= Len(ResultAt(task).eng)
      THEN [task EXCEPT !.res = ResultAt(task)] ELSE task

(* inputs *)

ConcurrentGenerateArgs ==
    {[modulusLength |-> 2048, controller |-> TestController],
     [modulusLength |-> 1024]}

ConcurrentExports ==
    {[secretKey |-> TRUE, includeContext |-> FALSE],
     [raw |-> TRUE, publicKey |-> TRUE, secretKey |-> TRUE]}

\* the signature the holder of the secret key made of the data
GenuineSignature(publicKey, data) ==
    Uint8Array([pss |-> publicKey.key, salt |-> 1, msg |-> DataBytes(data)])

\* the keys the engine may draw: the keys are interchangeable, and the
\* first key pair the callers keep is made of key 1
ConcurrentDraws == IF heap["keyPair"] = None THEN {1} ELSE 1..KeysPerLength

ConcurrentCalls ==
    {[fn |-> "generate", input |-> "own", o |-> [args |-> a, draw |-> i]] :
        a \in ConcurrentGenerateArgs, i \in ConcurrentDraws}
    \cup {[fn |-> "from", input |-> a, o |-> Empty] :
             a \in Objects("document") \cup Objects("jwk")}
    \cup {[fn |-> "fromJwk", input |-> a, o |-> [secretKey |-> TRUE]] :
             a \in Objects("jwk")}
    \cup {[fn |-> "fromRaw", input |-> a, o |-> [modulusLength |-> 2048]] :
             a \in Objects("raw")}
    \cup {[fn |-> "toJwk", input |-> a, o |-> [secretKey |-> TRUE]] :
             a \in Objects("keyPair")}
    \cup {[fn |-> "export", input |-> a, o |-> o] :
             a \in Objects("keyPair"), o \in ConcurrentExports}
    \cup {[fn |-> f, input |-> a, o |-> Empty] :
             f \in {"signer", "verifier"}, a \in Objects("keyPair")}
    \cup {[fn |-> "sign", input |-> a, o |-> [data |-> d, salt |-> 1]] :
             a \in Objects("signer"), d \in {JsText("a"), JsUndefined}}
    \cup UNION {{[fn |-> "verify", input |-> a,
                  o |-> [data |-> JsText("a"), signature |-> g]] :
                    g \in {GenuineSignature(heap[a].val.publicKey, JsText("a")),
                           Uint8Array(Bytes(<< >>))}} :
                a \in Objects("verifier")}

\* the kind of object a call returns; sign and verify return plain values
ResultKind(task) ==
    CASE task.fn \in {"generate", "from", "fromJwk", "fromRaw"} -> "keyPair"
      [] task.fn = "toJwk" -> "jwk"
      [] task.fn = "export" ->
           IF Opt(task.o, "raw", FALSE) THEN "raw" ELSE "document"
      [] task.fn \in {"signer", "verifier"} -> task.fn
      [] OTHER -> "value"

(* actions *)

\* a caller makes a call: the call runs up to its first await.  Calls are
\* made one after the other until the callers share an object of every kind,
\* and concurrently from then on.
Call(c, call) ==
    /\ tasks[c] = None
    /\ Shared \/ \A d \in Callers : tasks[d] = None
    /\ LET given == IF call.input = "own" THEN Empty ELSE heap[call.input].val
           task == [fn |-> call.fn, input |-> call.input, o |-> call.o,
                    given |-> given, own |-> given, views |-> << >>,
                    pc |-> 0, res |-> None]
           written == IF call.fn = "from" THEN WrittenByFrom(Deref(task))
                      ELSE Deref(task) IN
       /\ heap' = IF AddressOf(task) = "own" THEN heap
                  ELSE [heap EXCEPT ![AddressOf(task)].val = written]
       /\ tasks' = [tasks EXCEPT ![c] =
                       Settled([task EXCEPT !.own = IF AddressOf(task) = "own"
                                                     THEN written ELSE given,
                                            !.views = <<written>>])]
    /\ UNCHANGED client

\* the engine call a call awaits returns: the call runs up to its next await
Resume(c) ==
    /\ tasks[c] # None /\ tasks[c].res = None
    /\ LET task == tasks[c] IN
       tasks' = [tasks EXCEPT ![c] =
                    Settled([task EXCEPT
                               !.pc = task.pc + 1,
                               !.views = IF task.pc + 1 \in ReadPoints(task)
                                           THEN Append(@, Deref(task))
                                           ELSE @])]
    /\ UNCHANGED <<client, heap>>

\* the address at which the caller keeps a returned object of the kind
SlotFor(kind) ==
    IF kind = "keyPair" /\ heap["keyPair"] # None THEN "otherKeyPair" ELSE kind

\* the caller keeps the object a call returned, to use it in later calls:
\* the key pairs, and what the calls on the first key pair return
Keep(c) ==
    /\ tasks[c] # None /\ tasks[c].res # None /\ tasks[c].res.ok
    /\ ResultKind(tasks[c]) # "value"
    /\ ResultKind(tasks[c]) = "keyPair" \/ tasks[c].input = "keyPair"
    /\ heap[SlotFor(ResultKind(tasks[c]))] = None
    /\ heap' = [heap EXCEPT ![SlotFor(ResultKind(tasks[c]))] =
                                Cell(tasks[c].res.val)]
    /\ tasks' = [tasks EXCEPT ![c] = None]
    /\ UNCHANGED client

\* the caller drops the result or the error of a call
Drop(c) ==
    /\ tasks[c] # None /\ tasks[c].res # None
    /\ tasks' = [tasks EXCEPT ![c] = None]
    /\ UNCHANGED <<client, heap>>

NextConcurrent ==
    \/ \E c \in Callers : \E call \in ConcurrentCalls : Call(c, call)
    \/ \E c \in Callers : Resume(c)
    \/ \E c \in Callers : Keep(c)
    \/ \E c \in Callers : Drop(c)

SpecConcurrent == Init /\ [][NextConcurrent]_vars

(* ------------------------------- properties ---------------------------- *)

FullDocumentCall == [fn |-> "export", o |-> FullExport]

DocumentFields ==
    {"type", "@context", "id", "controller", "publicKeyMultibase",
     "publicKeyJwk", "secretKeyMultibase", "secretKeyJwk"}

\* the generated pair was exported in full, and the document given to from
FullDocumentImported ==
    /\ Done(generated)
    /\ exported # None /\ exported.call = FullDocumentCall
    /\ imported # None /\ imported.call.fn = "from"

\* C1: the full export D1 of a generated pair is a document that from
\* accepts, and the full export of the pair from returns equals D1 field for
\* field.
C1_DocumentRoundTrip ==
    /\ (Done(generated) /\ exported # None /\ exported.call = FullDocumentCall)
         => /\ exported.res.ok
            /\ DOMAIN exported.res.val \subseteq DocumentFields
    /\ FullDocumentImported => imported.res.ok
    /\ (FullDocumentImported /\ reexported # None
          /\ reexported.call = FullDocumentCall)
         => /\ reexported.res.ok
            /\ reexported.res.val = exported.res.val

C1_Witness ==
    /\ FullDocumentImported
    /\ Done(reexported) /\ reexported.call = FullDocumentCall
    /\ generated.args = [modulusLength |-> 3072]
    /\ Has(reexported.res.val, "secretKeyJwk")

\* the JWK of the generated pair was taken with secretKey = s and given to
\* fromJwk with the same s
JwkImported(s) ==
    /\ Done(generated)
    /\ exported # None /\ exported.call = [fn |-> "toJwk", o |-> [secretKey |-> s]]
    /\ imported # None /\ imported.call.fn = "fromJwk"
    /\ imported.call.args.secretKey = s

\* C2: the JWK J1 of a generated pair carries d exactly when secretKey was
\* requested; fromJwk accepts J1, and toJwk of the pair it returns, with
\* the same secretKey, equals J1.
C2_JwkRoundTrip ==
    \A s \in BOOLEAN :
       /\ (Done(generated) /\ exported # None
             /\ exported.call = [fn |-> "toJwk", o |-> [secretKey |-> s]])
            => /\ exported.res.ok
               /\ Has(exported.res.val, "d") <=> s
       /\ JwkImported(s) => imported.res.ok
       /\ (JwkImported(s) /\ reexported # None
             /\ reexported.call = exported.call)
            => /\ reexported.res.ok
               /\ reexported.res.val = exported.res.val

C2_Witness ==
    /\ JwkImported(TRUE)
    /\ Done(reexported) /\ reexported.call = exported.call
    /\ Has(reexported.res.val, "d")

RawCall(p, s) == [fn |-> "export", o |-> [raw |-> TRUE, publicKey |-> p,
                                          secretKey |-> s]]

\* the generated pair was exported raw and the bytes given to fromRaw
RawImported(p, s) ==
    /\ Done(generated)
    /\ exported # None /\ exported.call = RawCall(p, s)
    /\ imported # None /\ imported.call.fn = "fromRaw"

\* C3: the raw public and secret keys of a generated pair are the multibase
\* decodings of its publicKeyMultibase and secretKeyMultibase; fromRaw on
\* the public bytes re-exports the same public bytes, and fromRaw on the
\* secret and public bytes re-exports the same secret bytes.
C3_RawRoundTrip ==
    /\ \A p, s \in BOOLEAN :
         (Done(generated) /\ exported # None /\ exported.call = RawCall(p, s))
           => /\ exported.res.ok
              /\ Has(exported.res.val, "publicKey") <=> p
              /\ Has(exported.res.val, "secretKey") <=> s
              /\ p => exported.res.val.publicKey
                        = base58btc_decode(
                              generated.res.val.publicKeyMultibase).val
              /\ s => exported.res.val.secretKey
                        = base58btc_decode(
                              generated.res.val.secretKeyMultibase).val
    /\ \A s \in BOOLEAN :
         /\ RawImported(TRUE, s) => imported.res.ok
         /\ (RawImported(TRUE, s) /\ reexported # None
               /\ reexported.call = RawCall(TRUE, FALSE))
              => /\ reexported.res.ok
                 /\ reexported.res.val.publicKey = exported.res.val.publicKey
    /\ (RawImported(TRUE, TRUE) /\ reexported # None
          /\ reexported.call = RawCall(TRUE, TRUE))
         => /\ reexported.res.ok
            /\ reexported.res.val.secretKey = exported.res.val.secretKey

C3_Witness ==
    /\ RawImported(TRUE, TRUE)
    /\ Done(reexported) /\ reexported.call = RawCall(TRUE, TRUE)
    /\ reexported.res.val.secretKey.der = "pkcs8"

\* C4: generate with a modulusLength other than 2048, 3072 or 4096 throws a
\* TypeError before any engine call and returns no key pair; with one of
\* the three it returns a pair of exactly that length.
C4_InvalidModulusLengthRejected ==
    generated # None =>
      LET modulusLength == Opt(generated.args, "modulusLength", 4096) IN
      IF modulusLength \in {2048, 3072, 4096}
        THEN /\ generated.res.ok
             /\ generated.res.val.publicKey.algorithm.modulusLength
                  = modulusLength
        ELSE generated.res = Throw("TypeError", <<>>)

C4_Witness ==
    /\ generated # None
    /\ Has(generated.args, "modulusLength")
    /\ generated.args.modulusLength = 1024
    /\ ~ generated.res.ok

\* C5: the id of a generated pair is the supplied id when one is given (a
\* non-empty string), else controller # publicKeyMultibase when a
\* controller is given, else # publicKeyMultibase, with the pair's own
\* publicKeyMultibase; its controller is the supplied controller.
C5_GeneratedId ==
    Done(generated) =>
      LET args == generated.args
          keyPair == generated.res.val IN
      /\ Has(keyPair, "id")
      /\ keyPair.id =
           IF Has(args, "id") /\ args.id # EmptyStr THEN args.id
           ELSE IF Has(args, "controller")
             THEN args.controller \o Str("#") \o keyPair.publicKeyMultibase
           ELSE Str("#") \o keyPair.publicKeyMultibase
      /\ Has(keyPair, "controller") <=> Has(args, "controller")
      /\ Has(args, "controller") => keyPair.controller = args.controller

C5_Witness ==
    /\ Done(generated)
    /\ ~ Has(generated.args, "id")
    /\ Has(generated.args, "controller")
    /\ Len(generated.res.val.id) = 3
    /\ generated.res.val.id[1] = TestController[1]

\* the document-mode exports made so far, each with the pair it was made on
DocumentExports ==
    (IF exported # None /\ IsDocument(exported.call)
       THEN {[keyPair |-> generated.res.val, ex |-> exported]} ELSE {})
    \cup (IF reexported # None /\ IsDocument(reexported.call)
            THEN {[keyPair |-> imported.res.val, ex |-> reexported]} ELSE {})

\* C6: a document-mode export never fails for want of a secret key, and it
\* contains secretKeyMultibase and secretKeyJwk exactly when the secretKey
\* option is true and the pair holds a secret key handle.
C6_SecretExportedOnlyOnRequest ==
    \A d \in DocumentExports :
       LET wanted == /\ Opt(d.ex.call.o, "secretKey", FALSE)
                     /\ Has(d.keyPair, "secretKey") IN
       /\ d.ex.res.ok
       /\ Has(d.ex.res.val, "secretKeyMultibase") <=> wanted
       /\ Has(d.ex.res.val, "secretKeyJwk") <=> wanted

C6_Witness ==
    /\ Done(imported) /\ ~ Has(imported.res.val, "secretKey")
    /\ Done(reexported) /\ IsDocument(reexported.call)
    /\ Opt(reexported.call.o, "secretKey", FALSE)
    /\ ~ Has(reexported.res.val, "secretKeyMultibase")

IsMessage(data) == data.t \in {"string", "Uint8Array"}

\* the bytes a message stands for: a string stands for its UTF-8 encoding
MessageBytes(data) ==
    IF data.t = "string" THEN TextEncoder_encode(data.str) ELSE data.v

\* C7: every string and every Uint8Array is signed, and verifying a message
\* with the same bytes against that signature returns true.
C7_SignThenVerify ==
    (signed # None /\ IsMessage(signed.data)) =>
       /\ signed.res.ok
       /\ (/\ verified # None
           /\ verified.signature = signed.res.val
           /\ IsMessage(verified.data)
           /\ MessageBytes(verified.data) = MessageBytes(signed.data))
            => verified.res = Ok(TRUE, <<"verify">>)

\* C8: verifying a signature against a message whose bytes differ from the
\* signed ones returns false.
C8_TamperDetected ==
    (/\ Done(signed) /\ verified # None
     /\ verified.signature = signed.res.val
     /\ IsMessage(verified.data)
     /\ MessageBytes(verified.data) # MessageBytes(signed.data))
      => verified.res = Ok(FALSE, <<"verify">>)

\* C9: verify with a string or Uint8Array as data and a Uint8Array as
\* signature never throws: it returns a boolean.
C9_VerifyNeverThrows ==
    (/\ verified # None
     /\ IsMessage(verified.data)
     /\ verified.signature.t = "Uint8Array")
      => /\ verified.res.ok
         /\ verified.res.val \in BOOLEAN

\* C10: sign accepts data exactly when it is a string or a Uint8Array, of
\* any length including zero, and then returns a Uint8Array; any other data
\* throws a TypeError.
C10_SignAcceptsStringsAndBytes ==
    signed # None =>
      IF IsMessage(signed.data)
        THEN signed.res.ok /\ signed.res.val.t = "Uint8Array"
        ELSE signed.res = Throw("TypeError", <<>>)

\* C11: a capability returned by keyPair.signer() or keyPair.verifier() has
\* algorithm 'PS256' and the id of the pair it was made from; a signer holds
\* the pair's secret key handle and a verifier its public key handle.
C11_CapabilityOfPair ==
    /\ (Done(sgn) /\ sgn.of \in {"generated", "imported"}) =>
          /\ sgn.res.val.algorithm = "PS256"
          /\ sgn.res.val.id = PairOf(sgn.of).res.val.id
          /\ sgn.res.val.secretKey = PairOf(sgn.of).res.val.secretKey
          /\ sgn.res.val.secretKey.type = "private"
    /\ (Done(vfy) /\ vfy.of \in {"generated", "imported"}) =>
          /\ vfy.res.val.algorithm = "PS256"
          /\ vfy.res.val.id = PairOf(vfy.of).res.val.id
          /\ vfy.res.val.publicKey = PairOf(vfy.of).res.val.publicKey
          /\ vfy.res.val.publicKey.type = "public"

C11_Witness ==
    /\ Done(sgn) /\ sgn.of = "imported"
    /\ Done(vfy) /\ vfy.of = "generated"
    /\ sgn.res.val.id = TestId /\ vfy.res.val.id = TestId

\* from was called on a literal Multikey document: type absent or 'Multikey'
LiteralMultikeyImported ==
    /\ imported # None /\ imported.call.fn = "from"
    /\ Has(imported.call.args, "type") => imported.call.args.type = "Multikey"
    /\ ~ Has(imported.call.args, "type")
         => ~ Has(imported.call.args, "publicKeyJwk")

\* @context is the Multikey URL or an array that contains it
ContextAccepted(c) ==
    \/ c = JsString(MULTIKEY_CONTEXT_V1_URL)
    \/ /\ Has(c, "arr")
       /\ \E n \in DOMAIN c.arr : c.arr[n] = JsString(MULTIKEY_CONTEXT_V1_URL)

\* C12: on the literal-Multikey path of from, a document with an @context
\* other than the Multikey URL or an array containing it is rejected with a
\* TypeError before any key import; a document with the context
\* [{}, URL] is imported, and the full export of the pair equals the full
\* export of the pair imported from the same document with the bare URL.
C12_ContextValidated ==
    LiteralMultikeyImported =>
      LET document == imported.call.args IN
      /\ (Has(document, "@context") /\ ~ ContextAccepted(document["@context"]))
           => imported.res = Throw("TypeError", <<>>)
      /\ (Has(document, "@context") /\ document["@context"] = ContextArray)
           => /\ imported.res.ok
              /\ exportFn(imported.res.val, FullExport)
                   = exportFn(from(With(document, "@context",
                                        JsString(MULTIKEY_CONTEXT_V1_URL))).val,
                              FullExport)

\* the public JWK of the generated pair was wrapped in a document without a
\* type or with type 'JsonWebKey' and given to from
PublicJwkDocumentImported ==
    /\ Done(exported)
    /\ exported.call = [fn |-> "toJwk", o |-> [secretKey |-> FALSE]]
    /\ imported # None /\ imported.call.fn = "from"
    /\ imported.call.args \in
         {[publicKeyJwk |-> exported.res.val],
          [type |-> "JsonWebKey", publicKeyJwk |-> exported.res.val]}

\* C13: from accepts the public JWK J of a generated pair wrapped as
\* {publicKeyJwk: J} or {type: 'JsonWebKey', publicKeyJwk: J}, and toJwk of
\* the pair it returns equals J.
C13_PublicJwkDocumentRoundTrip ==
    PublicJwkDocumentImported =>
      /\ imported.res.ok
      /\ toJwk([keyPair |-> imported.res.val]).val = exported.res.val
      /\ (reexported # None /\ reexported.call.fn = "toJwk")
           => /\ reexported.res.ok
              /\ reexported.res.val = exported.res.val

C13_Witness ==
    /\ PublicJwkDocumentImported
    /\ Has(imported.call.args, "type")
    /\ Done(reexported) /\ reexported.call.fn = "toJwk"
    /\ reexported.res.val.key_ops = {"verify"}

KeyPairImported == imported # None /\ imported.call.fn = "importKeyPair"

\* the fields of the input are on the pair importKeyPair returned
FieldsCarried(input, keyPair) ==
    \A f \in DOMAIN input \ {"publicKey", "secretKey"} :
       Has(keyPair, f) /\ keyPair[f] = input[f]

\* C14: importKeyPair returns an input with a public key handle as it is,
\* with no engine call; else imports an input with publicKeyJwk from its
\* JWKs, whatever its publicKeyMultibase; else imports an input with
\* publicKeyMultibase from the decoded bytes; else fails, so that from({})
\* fails. The other fields of the input are on the returned pair.
C14_ImportDispatch ==
    /\ KeyPairImported =>
         LET input == imported.call.args
             res == imported.res IN
         IF Has(input, "publicKey") /\ Has(input.publicKey, "algorithm")
           THEN res = Ok(input, <<>>)
         ELSE IF Has(input, "publicKeyJwk")
           THEN /\ res.ok
                /\ res.val.publicKey
                     = CryptoKeyHandle("public",
                          RsaKey(Base64UrlDecode(input.publicKeyJwk.n).bytes * 8,
                                 Base64UrlDecode(input.publicKeyJwk.n).i),
                          {"verify"})
                /\ Has(res.val, "secretKey") <=> Has(input, "secretKeyJwk")
                /\ FieldsCarried(input, res.val)
         ELSE IF Has(input, "publicKeyMultibase")
           THEN /\ res.ok
                /\ res.val.publicKey
                     = CryptoKeyHandle("public",
                          KeyOfDer(base58btc_decode(input.publicKeyMultibase).val),
                          {"verify"})
                /\ Has(res.val, "secretKey") <=> Has(input, "secretKeyMultibase")
                /\ FieldsCarried(input, res.val)
         ELSE ~ res.ok /\ res.eng = <<>>
    /\ (imported # None /\ imported.call = [fn |-> "from", args |-> Empty])
         => ~ imported.res.ok

C14_Witness ==
    /\ KeyPairImported /\ imported.res.ok
    /\ Has(imported.call.args, "publicKeyJwk")
    /\ imported.call.args.publicKeyMultibase = OtherPublicKeyMultibase
    /\ imported.res.val.publicKey.key.len = 2048
    /\ imported.res.val.id = TestId

JwkImportCalled == imported # None /\ imported.call.fn = "fromJwk"

\* C15: fromJwk throws a TypeError when jwk is missing, is not an object or
\* has a kty other than 'RSA'; otherwise it returns a pair that holds a
\* secret key handle, and has a secretKeyMultibase, exactly when secretKey
\* is true and jwk.d is present.
C15_SecretFromJwkOnRequest ==
    JwkImportCalled =>
      LET o == imported.call.args IN
      IF \/ ~ Has(o, "jwk") \/ Has(o.jwk, "str")
         \/ ~ Has(o.jwk, "kty") \/ o.jwk.kty # "RSA"
        THEN imported.res = Throw("TypeError", <<>>)
        ELSE /\ imported.res.ok
             /\ Has(imported.res.val, "secretKey")
                  <=> (Opt(o, "secretKey", FALSE) /\ Has(o.jwk, "d"))
             /\ Has(imported.res.val, "secretKeyMultibase")
                  <=> (Opt(o, "secretKey", FALSE) /\ Has(o.jwk, "d"))
             /\ Has(imported.res.val, "secretKey")
                  => imported.res.val.secretKey.type = "private"

C15_Witness ==
    /\ JwkImportCalled /\ imported.res.ok
    /\ Has(imported.call.args.jwk, "d")
    /\ Has(imported.call.args, "secretKey")
    /\ ~ imported.call.args.secretKey
    /\ ~ Has(imported.res.val, "secretKey")

\* the calls of toJwk made so far, each with the key pair it was given
JwkExports ==
    (IF exported # None /\ exported.call.fn = "toJwk"
       THEN {[keyPair |-> generated.res.val, ex |-> exported]} ELSE {})
    \cup (IF reexported # None /\ reexported.call.fn = "toJwk"
            THEN {[keyPair |-> IF Has(reexported.call, "of")
                                 THEN exported.res.val ELSE imported.res.val,
                   ex |-> reexported]}
            ELSE {})

\* C16: toJwk returns the secret JWK exactly when secretKey is true and the
\* pair holds a secret key handle (a document: a secret JWK), else the
\* public JWK without private members; the JWK has alg, 'PS256' when the
\* engine gave none; a pair without handles is imported first.
C16_JwkOfRequestedHalf ==
    /\ \A j \in JwkExports :
         LET secret == /\ j.ex.call.o.secretKey
                       /\ \/ Has(j.keyPair, "secretKey")
                          \/ /\ ~ Has(j.keyPair, "publicKey")
                             /\ Has(j.keyPair, "secretKeyJwk") IN
         /\ j.ex.res.ok
         /\ Has(j.ex.res.val, "alg")
         /\ Has(j.ex.res.val, "d") <=> secret
         /\ ~ secret => DOMAIN j.ex.res.val \cap PrivateMembers = {}
         /\ ~ Has(j.keyPair, "publicKey")
              => j.ex.res
                   = After(importKeyPair(j.keyPair).eng,
                           toJwk([keyPair |-> importKeyPair(j.keyPair).val,
                                  secretKey |-> j.ex.call.o.secretKey]))
    /\ Has(WithDefaultAlg(PublicJwkMembers(RsaKey(2048, 1))), "alg")
    /\ WithDefaultAlg(PublicJwkMembers(RsaKey(2048, 1))).alg = "PS256"

C16_Witness ==
    /\ Done(reexported) /\ reexported.call.fn = "toJwk"
    /\ Has(reexported.call, "of")
    /\ reexported.call.o.secretKey
    /\ Has(reexported.res.val, "d")
    /\ reexported.res.eng = <<"importKey", "importKey", "exportKey">>

\* the arguments leave a capability factory nothing to build on: id is
\* missing, empty or not a string, or the key half is missing
BadCapabilityArgs(o, half) ==
    \/ ~ Has(o, "id") \/ o.id = EmptyStr \/ o.id = NotAString("number")
    \/ ~ Has(o, half)

\* C17: createSigner and createVerifier throw a TypeError when id is empty or
\* not a string or the key half is absent; keyPair.signer() on a pair
\* without a secret key handle throws an Error; so every capability has its
\* key half and a non-empty string id.
C17_NoCapabilityWithoutKeyAndId ==
    /\ (sgn # None /\ sgn.of = "createSigner") =>
          IF BadCapabilityArgs(sgn.args, "secretKey")
            THEN sgn.res = Throw("TypeError", <<>>) ELSE sgn.res.ok
    /\ (vfy # None /\ vfy.of = "createVerifier") =>
          IF BadCapabilityArgs(vfy.args, "publicKey")
            THEN vfy.res = Throw("TypeError", <<>>) ELSE vfy.res.ok
    /\ (sgn # None /\ sgn.of \in {"generated", "imported"}
          /\ ~ Has(PairOf(sgn.of).res.val, "secretKey"))
         => sgn.res = Throw("Error", <<>>)
    /\ Done(sgn) => /\ Has(sgn.res.val, "secretKey")
                    /\ StrTruthy(sgn.res.val.id) /\ IsString(sgn.res.val.id)
    /\ Done(vfy) => /\ Has(vfy.res.val, "publicKey")
                    /\ StrTruthy(vfy.res.val.id) /\ IsString(vfy.res.val.id)

C17_Witness ==
    /\ sgn # None /\ sgn.of = "imported"
    /\ ~ Has(imported.res.val, "secretKey")
    /\ Has(imported.res.val, "id")
    /\ sgn.res = Throw("Error", <<>>)

\* C18: a document-mode export has type 'Multikey'; it has '@context', the
\* Multikey URL as a string, exactly when includeContext is true; it has the
\* id and the controller of the pair when the pair has them; it has
\* publicKeyMultibase and publicKeyJwk exactly when publicKey is true and
\* the pair holds a public key handle.
C18_DocumentShape ==
    \A d \in DocumentExports :
       LET document == d.ex.res.val
           public == /\ Opt(d.ex.call.o, "publicKey", TRUE)
                     /\ Has(d.keyPair, "publicKey") IN
       /\ d.ex.res.ok
       /\ document.type = "Multikey"
       /\ Has(document, "@context") <=> Opt(d.ex.call.o, "includeContext", TRUE)
       /\ Has(document, "@context")
            => document["@context"] = JsString(MULTIKEY_CONTEXT_V1_URL)
       /\ Has(d.keyPair, "id")
            => Has(document, "id") /\ document.id = d.keyPair.id
       /\ Has(d.keyPair, "controller")
            => Has(document, "controller")
               /\ document.controller = d.keyPair.controller
       /\ Has(document, "publicKeyMultibase") <=> public
       /\ Has(document, "publicKeyJwk") <=> public

C18_Witness ==
    /\ Done(imported) /\ imported.call.fn = "from"
    /\ Has(imported.call.args, "@context")
    /\ imported.call.args["@context"] = ContextArray
    /\ Done(reexported) /\ IsDocument(reexported.call)
    /\ Has(reexported.res.val, "@context")
    /\ reexported.res.val["@context"] = JsString(MULTIKEY_CONTEXT_V1_URL)
    /\ Has(reexported.res.val, "controller")
    /\ reexported.res.val.controller = TestController
    /\ ~ Has(reexported.res.val, "publicKeyJwk")

\* the key pairs returned so far by generate, from, fromJwk and fromRaw
KeyPairsReturned ==
    (IF Done(generated) THEN {generated.res.val} ELSE {})
    \cup (IF Done(imported) /\ imported.call.fn # "importKeyPair"
            THEN {imported.res.val} ELSE {})

\* C19: the modulusLength of a key pair is the modulus length of its public
\* key handle, and of its secret key handle when it has one.
C19_ModulusLengthOfHandles ==
    \A keyPair \in KeyPairsReturned :
       /\ keyPair.modulusLength = keyPair.publicKey.algorithm.modulusLength
       /\ Has(keyPair, "secretKey")
            => keyPair.modulusLength = keyPair.secretKey.algorithm.modulusLength

\* from was given a document with publicKeyJwk whose type is not 'Multikey'
JwkDocumentImported ==
    /\ imported # None /\ imported.call.fn = "from"
    /\ Has(imported.call.args, "publicKeyJwk")
    /\ Has(imported.call.args, "type") => imported.call.args.type # "Multikey"

\* C20: a pair that from returns for a document with publicKeyJwk and a
\* type other than 'Multikey' has the id and controller of the document when
\* the type is 'JsonWebKey' or 'JsonWebKey2020', and has neither an id nor a
\* controller for any other type and for no type.
C20_IdOfJwkDocument ==
    JwkDocumentImported =>
      LET document == imported.call.args IN
      /\ imported.res.ok
      /\ IF Has(document, "type")
            /\ document.type \in {"JsonWebKey", "JsonWebKey2020"}
           THEN /\ Has(document, "id")
                     => Has(imported.res.val, "id")
                        /\ imported.res.val.id = document.id
                /\ Has(imported.res.val, "controller")
                     <=> Has(document, "controller")
                /\ Has(document, "controller")
                     => imported.res.val.controller = document.controller
           ELSE /\ ~ Has(imported.res.val, "id")
                /\ ~ Has(imported.res.val, "controller")

C20_Witness ==
    /\ JwkDocumentImported /\ imported.res.ok
    /\ Has(imported.call.args, "type")
    /\ imported.call.args.type = "JsonWebKey2020"
    /\ Has(imported.call.args, "controller")
    /\ imported.res.val.id = TestId
    /\ imported.res.val.controller = TestController

\* from or fromJwk returned a key pair
DocumentOrJwkImported ==
    /\ Done(imported) /\ imported.call.fn \in {"from", "fromJwk"}

\* C21: a pair that from or fromJwk returns for an input with a controller
\* and no id has the id controller # publicKeyMultibase, made of the pair's
\* own publicKeyMultibase; for an input with an id it has that id.
C21_IdDerivedFromController ==
    DocumentOrJwkImported =>
      LET input == imported.call.args
          keyPair == imported.res.val IN
      /\ (Has(input, "controller") /\ ~ Has(input, "id"))
           => /\ Has(keyPair, "id")
              /\ keyPair.id = input.controller \o Str("#")
                                 \o keyPair.publicKeyMultibase
      /\ Has(input, "id")
           => Has(keyPair, "id") /\ keyPair.id = input.id

\* from was given a document with publicKeyJwk and secretKeyJwk or
\* privateKeyJwk, whose @context (if it has one) is a Multikey context
SecretJwkDocumentImported ==
    /\ imported # None /\ imported.call.fn = "from"
    /\ Has(imported.call.args, "publicKeyJwk")
    /\ Has(imported.call.args, "secretKeyJwk")
         \/ Has(imported.call.args, "privateKeyJwk")
    /\ Has(imported.call.args, "@context")
         => ContextAccepted(imported.call.args["@context"])

\* C24: from on a document with publicKeyJwk and secretKeyJwk (or
\* privateKeyJwk) returns, for every type of the document, a pair with a
\* secret key handle: its export with secretKey has secretKeyMultibase, and
\* its signer() succeeds (for a pair that has an id).
C24_SecretOfJwkDocument ==
    SecretJwkDocumentImported =>
      /\ imported.res.ok
      /\ Has(imported.res.val, "secretKey")
      /\ Has(exportFn(imported.res.val, [secretKey |-> TRUE]).val,
             "secretKeyMultibase")
      /\ Has(imported.res.val, "id") => signer(imported.res.val).ok

\* the raw-mode exports made so far, each with the pair it was made on
RawExports ==
    (IF exported # None /\ exported.call.fn = "export"
        /\ ~ IsDocument(exported.call)
       THEN {[keyPair |-> generated.res.val, ex |-> exported]} ELSE {})
    \cup (IF reexported # None /\ reexported.call.fn = "export"
             /\ ~ IsDocument(reexported.call)
            THEN {[keyPair |-> imported.res.val, ex |-> reexported]} ELSE {})

\* C25: a raw-mode export never fails for want of a secret key; its result
\* has secretKey exactly when the secretKey option is true and the pair
\* holds a secret key handle, and publicKey exactly when the publicKey
\* option is true.
C25_RawSecretOnlyOnRequest ==
    \A r \in RawExports :
       /\ r.ex.res.ok
       /\ Has(r.ex.res.val, "secretKey")
            <=> (Opt(r.ex.call.o, "secretKey", FALSE)
                 /\ Has(r.keyPair, "secretKey"))
       /\ Has(r.ex.res.val, "publicKey") <=> Opt(r.ex.call.o, "publicKey", TRUE)

\* from was given a document with a type other than 'Multikey' and without
\* publicKeyJwk
CoercedDocumentImported ==
    /\ imported # None /\ imported.call.fn = "from"
    /\ Has(imported.call.args, "type")
    /\ imported.call.args.type \notin {"", "Multikey"}
    /\ ~ Has(imported.call.args, "publicKeyJwk")

\* C26: from on a document with a type other than 'Multikey' and without
\* publicKeyJwk returns a key pair, and for a document that carries
\* publicKeyMultibase the pair exports that publicKeyMultibase.
C26_CoercedDocumentImported ==
    CoercedDocumentImported =>
      /\ imported.res.ok
      /\ Has(imported.call.args, "publicKeyMultibase")
           => exportFn(imported.res.val, Empty).val.publicKeyMultibase
                = imported.call.args.publicKeyMultibase

\* data that fails a structural check: undefined or the empty string (not
\* present), or neither a string nor a Uint8Array
DataRejected(data) ==
    \/ data = JsUndefined \/ data = JsText("")
    \/ data.t \notin {"string", "Uint8Array"}

\* a signature that fails a structural check: undefined, or no Uint8Array
SignatureRejected(signature) ==
    signature = JsUndefined \/ signature.t # "Uint8Array"

\* C27: a sign or verify call whose input fails a structural check throws
\* a TypeError without any engine call; verify does not turn it into false.
C27_StructuralChecksFirst ==
    /\ (signed # None /\ DataRejected(signed.data))
         => signed.res = Throw("TypeError", <<>>)
    /\ (/\ verified # None
        /\ DataRejected(verified.data) \/ SignatureRejected(verified.signature))
         => verified.res = Throw("TypeError", <<>>)

C27_Witness ==
    /\ Done(signed) /\ verified # None
    /\ verified.data = signed.data
    /\ verified.signature = JsText("signature")
    /\ verified.res = Throw("TypeError", <<>>)

\* fromRaw returned a pair for arguments with a secretKey
SecretRawImported ==
    /\ Done(imported) /\ imported.call.fn = "fromRaw"
    /\ Has(imported.call.args, "secretKey")

\* what a pair exports: the completions of its full document export and of
\* its full raw export
ExportsOf(keyPair) ==
    <<exportFn(keyPair, FullExport),
      exportFn(keyPair, [raw |-> TRUE, publicKey |-> TRUE,
                         secretKey |-> TRUE])>>

\* C28: the pair fromRaw returns for arguments with a secretKey does not
\* depend on the publicKey bytes: with any other valid publicKey the
\* returned pair has the same exports, and the public key handle of the
\* pair is that of the key of the secret key handle.
C28_PairOfSecretBytes ==
    SecretRawImported =>
      /\ Has(imported.res.val, "secretKey")
      /\ imported.res.val.publicKey.key = imported.res.val.secretKey.key
      /\ \A k \in OtherPublicKeys \cup {Spki(generated.res.val.publicKey.key)} :
            LET other == fromRaw(With(imported.call.args, "publicKey", k)) IN
            other.ok /\ ExportsOf(other.val) = ExportsOf(imported.res.val)

C28_Witness ==
    /\ SecretRawImported
    /\ imported.call.args.publicKey \in OtherPublicKeys
    /\ imported.res.val.publicKey.key = generated.res.val.publicKey.key
    /\ imported.res.val.publicKeyMultibase
         = generated.res.val.publicKeyMultibase

\* the completion of the part of an import call that precedes its call of
\* fromJwk, with the arguments of that call; a throw if it does not get there
FromJwkCallOf(call) ==
    CASE call.fn = "fromJwk" -> Ok(call.args, <<>>)
      [] call.fn = "fromRaw" -> fromRawArguments(call.args)
      [] call.fn = "from" ->
           IF TakesJwkBranch(call.args)
             THEN Ok(fromJwkArguments(call.args), <<>>)
             ELSE Throw("none", <<>>)

\* an import call that went through fromJwk as far as its call of from
ReachedInnerFrom ==
    /\ imported # None /\ imported.call.fn \in {"from", "fromJwk", "fromRaw"}
    /\ FromJwkCallOf(imported.call).ok
    /\ fromJwkDocument(FromJwkCallOf(imported.call).val).ok

\* C29: every from, fromJwk and fromRaw call completes with a key pair or
\* an error.  The document fromJwk hands to from has type 'Multikey', so
\* the inner from does not take the JWK branch again: the call completes as
\* the literal-Multikey path (which does not call from or fromJwk) does on
\* that document, after the engine calls made before it.
C29_ImportTerminates ==
    /\ (imported # None /\ imported.call.fn \in {"from", "fromJwk", "fromRaw"})
         => \/ imported.res.ok /\ HasPublicKeyHandle(imported.res.val)
            \/ /\ ~ imported.res.ok
               /\ imported.res.err \in {"TypeError", "Error", "DataError",
                                         "SyntaxError", "InvalidAccessError"}
    /\ ReachedInnerFrom =>
         LET arguments == FromJwkCallOf(imported.call)
             multikey == fromJwkDocument(arguments.val) IN
         /\ multikey.val.type = "Multikey"
         /\ ~ TakesJwkBranch(multikey.val)
         /\ imported.res = After(arguments.eng,
                                 After(multikey.eng, fromMultikey(multikey.val)))

C29_Witness ==
    /\ ReachedInnerFrom /\ imported.call.fn = "from"
    /\ Has(imported.call.args, "type")
    /\ imported.call.args.type = "JsonWebKey2020"
    /\ imported.res.ok /\ imported.res.val.type = "Multikey"

\* C30: every pair returned by generate, from, fromJwk or fromRaw has a
\* non-empty string as id; its verifier() returns a verifier, and its
\* signer() returns a signer when the pair has a secret key handle.
C30_PairsHaveAnId ==
    \A keyPair \in KeyPairsReturned :
       /\ TruthyStrField(keyPair, "id") /\ IsString(keyPair.id)
       /\ verifier(keyPair).ok
       /\ Has(keyPair, "secretKey") => signer(keyPair).ok

(* concurrent calls *)

\* the completion of a call that runs alone on the object it was given
Alone(task) ==
    CASE task.fn = "generate" -> generate(task.o.args, task.o.draw)
      [] task.fn = "from" -> from(task.given)
      [] task.fn = "fromJwk" -> fromJwk([jwk |-> task.given] @@ task.o)
      [] task.fn = "fromRaw" -> fromRaw(task.given @@ task.o)
      [] task.fn = "toJwk" -> toJwk([keyPair |-> task.given] @@ task.o)
      [] task.fn = "export" -> exportFn(task.given, task.o)
      [] task.fn = "signer" -> signer(task.given)
      [] task.fn = "verifier" -> verifier(task.given)
      [] task.fn = "sign" -> sign(task.given, task.o.data, task.o.salt)
      [] task.fn = "verify" ->
           verify(task.given, task.o.data, task.o.signature)

Running(c) == tasks[c] # None /\ tasks[c].res = None

Finished(c) == tasks[c] # None /\ tasks[c].res # None

\* C22: under every interleaving of the awaits of concurrent calls, a call
\* that has completed holds the completion (value or error, after the same
\* engine calls) that it has when it runs alone on the object it was given,
\* and every key pair, signer and verifier that a call returned is as it was
\* when it was returned.
C22_CallsDoNotInterfere ==
    /\ \A c \in Callers : Finished(c) => tasks[c].res = Alone(tasks[c])
    /\ \A a \in Addresses :
          (KindOf(a) \in {"keyPair", "signer", "verifier"} /\ heap[a] # None)
             => heap[a].val = heap[a].made

\* a call on the first key pair completed after a second key pair was made,
\* while another call on the first key pair is between two of its awaits
C22_Witness ==
    /\ heap["otherKeyPair"] # None
    /\ heap["otherKeyPair"].val # heap["keyPair"].val
    /\ \E c \in Callers, d \in Callers :
          /\ Finished(c) /\ tasks[c].fn = "export" /\ tasks[c].res.ok
          /\ tasks[c].input = "keyPair" /\ Len(tasks[c].views) > 1
          /\ Running(d) /\ tasks[d].input = "keyPair" /\ tasks[d].pc > 0

\* C23: from, fromJwk, toJwk, fromRaw, export, signer() and verifier() leave
\* the document, the JWK, the raw export and the key pair they are given as
\* they were; from writes its defaults to a copy that only the call holds.
\* While a call has failed, every key pair, signer and verifier is as it was
\* made, and a call on it completes as it does on the object as made.
C23_InputsAreNotModified ==
    /\ \A a \in Addresses : heap[a] # None => heap[a].val = heap[a].made
    /\ \A c \in Callers :
          (tasks[c] # None /\ tasks[c].input # "own")
             => /\ heap[tasks[c].input].val = tasks[c].given
                /\ tasks[c].fn # "from" => tasks[c].own = tasks[c].given
    /\ (\E c \in Callers : Finished(c) /\ ~ tasks[c].res.ok)
          => /\ \A a \in Objects("keyPair") :
                   /\ exportFn(heap[a].val, FullExport)
                        = exportFn(heap[a].made, FullExport)
                   /\ exportFn(heap[a].val, FullExport).ok
             /\ \A a \in Objects("signer") :
                   sign(heap[a].val, JsText("a"), 1).ok
             /\ \A a \in Objects("verifier") :
                   verify(heap[a].val, JsText("a"),
                          GenuineSignature(heap[a].made.publicKey,
                                           JsText("a"))).val = TRUE

\* a from call wrote its defaults to its own copy of a shared document, and
\* a call failed while the callers hold key pairs, a signer and a verifier
C23_Witness ==
    /\ Shared
    /\ \E c \in Callers, d \in Callers :
          /\ tasks[c] # None /\ tasks[c].fn = "from"
          /\ tasks[c].input = "document"
          /\ tasks[c].own # tasks[c].given
          /\ Has(tasks[c].own, "@context")
          /\ ~ Has(heap["document"].val, "@context")
          /\ Finished(d) /\ ~ tasks[d].res.ok

====
